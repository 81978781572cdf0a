------------------------------ MODULE PolyScan ------------------------------
(***************************************************************************)
(* Where the transactions of the Poly -> Starcoin direction come from:     *)
(* PolyManager's MonitorChain goes through the Poly blocks, saves the      *)
(* transfers it finds in poly_tx, or in poly_tx_retry when the account on  *)
(* Starcoin does not accept the token yet, and sends Starcoin the headers  *)
(* that change the book keepers; MonitorDeposit moves rows of              *)
(* poly_tx_retry to poly_tx when they can go.                              *)
(*                                                                         *)
(* What becomes of a row of poly_tx is the subject of PolyTxRelay, whose   *)
(* PutRead ... PutSend are one step here.  A transfer's proof is the same  *)
(* whenever it is asked for, but for the anchor: the header that vouches   *)
(* for the block's own when the book keepers have changed.  Each transfer  *)
(* is in a Poly transaction of its own.                                    *)
(***************************************************************************)
EXTENDS Naturals, Sequences, FiniteSets

CONSTANTS
  Event,       \* the transfers (makeProof events for Starcoin, targets only)
  Block,       \* the transfers of each Poly block, in order
  Epochs,      \* the Poly headers that bring new book keepers
  Start,       \* the height InitStarcoinGenesis has saved
  Top,         \* bound of the model: the last Poly height
  CheckFee,    \* config.CheckFee
  MaxErrors,   \* bounds of the model: failed calls of a node or the database,
  MaxCrashes   \* and deaths of the process

Useful == 1    \* ONT_USEFUL_BLOCK_NUM

ASSUME ScanConstants ==
  /\ Top \in Nat /\ Start \in Nat /\ Start + 2 <= Top
  /\ Block \in [0..Top -> Seq(Event)]
  /\ \A h \in 0..Top : h < Start => Block[h] = <<>>
  /\ Epochs \subseteq (Start + 1)..Top
  /\ CheckFee \in BOOLEAN
  /\ MaxErrors \in Nat /\ MaxCrashes \in Nat
  /\ MaxCrashes < Start    \* the saved height does not wrap at 0

VARIABLES
  tip,         \* Poly: its height
  epoch,       \* Starcoin: the header its book keepers are from
  changes,     \* changeBookKeeper transactions it has accepted
  accepting,   \* the transfers whose account accepts the token
  rows,        \* poly_tx, as far as it tells whether a transfer is there
  retry,       \* poly_tx_retry
  saved,       \* chain_height: the Poly height
  missed,      \* the transfers whose proof could not be had (a line of the log)
  pc,          \* MonitorChain: where it is,
  latest,      \* latestheight less ONT_USEFUL_BLOCK_NUM,
  height,      \* currentHeight,
  lastEpoch,   \* the start of the epoch it has read,
  isEpoch,     \* whether the header changes the book keepers,
  anchor,      \* the anchor of the block's transfers (0: none),
  next,        \* the next of them,
  found,       \* whether it has found one (cnt > 0),
  processed,   \* heightProcessed
  dep,         \* MonitorDeposit
  errors, crashes

starcoin == <<epoch, changes, accepting>>
tables   == <<rows, retry, saved>>
handling == <<lastEpoch, isEpoch, anchor, next, found, processed>>
monitor  == <<pc, latest, height, handling>>
vars     == <<tip, starcoin, tables, missed, monitor, dep, errors, crashes>>

\* A header proof whose anchor could not be had.
NoHeader == Top + 2

Height == 0..(Top - 1)
Anchor == 0..NoHeader
Row    == [event: Event, anchor: Anchor]

Depositing == [stage: {"idle", "list", "delete"}, todo: SUBSET Row,
               item: SUBSET Row]

TypeOK ==
  /\ tip \in 0..Top
  /\ epoch \in 0..Top /\ changes \subseteq 0..Top /\ accepting \subseteq Event
  /\ rows \subseteq Row /\ retry \subseteq Row /\ saved \in Height
  /\ missed \subseteq Event
  /\ pc \in {"idle", "loop", "header", "events", "change", "confirm", "save"}
  /\ latest \in 0..Top /\ height \in Height
  /\ lastEpoch \in 0..Top /\ isEpoch \in BOOLEAN /\ anchor \in Anchor
  /\ next \in Nat \ {0} /\ found \in BOOLEAN /\ processed \in BOOLEAN
  /\ dep \in Depositing
  /\ errors \in 0..MaxErrors /\ crashes \in 0..MaxCrashes

-----------------------------------------------------------------------------
(***************************************************************************)
(* The two chains.                                                         *)
(***************************************************************************)
NewBlock ==
  /\ tip < Top
  /\ tip' = tip + 1
  /\ UNCHANGED <<starcoin, tables, missed, monitor, dep, errors, crashes>>

\* The owner of the account accepts the token, if ever.
AcceptToken(e) ==
  /\ e \notin accepting
  /\ accepting' = accepting \cup {e}
  /\ UNCHANGED <<tip, epoch, changes, tables, missed, monitor, dep, errors,
                 crashes>>

\* The header is signed by the book keepers of the epoch before its own.
ChangeBookKeeperRuns(k) ==
  /\ k \in changes
  /\ changes' = changes \ {k}
  /\ epoch' = IF k > epoch /\ \A j \in Epochs : ~(epoch < j /\ j < k)
              THEN k ELSE epoch
  /\ UNCHANGED <<tip, accepting, tables, missed, monitor, dep, errors, crashes>>

\* A step in which n calls fail.
Fail(n) == errors + n <= MaxErrors /\ errors' = errors + n

Error == Fail(1)

-----------------------------------------------------------------------------
(***************************************************************************)
(* The tables.                                                             *)
(***************************************************************************)
\* Mutant: a transfer that is there already fails, whatever its proof.
NeverThere(r, table) == FALSE

\* The row is there with the same proof: "treated as saved".
Duplicate(r, table) == r \in table

CanPut(r, table) ==
  Duplicate(r, table) \/ \A x \in table : x.event # r.event

Init ==
  /\ tip = Start + 1
  /\ epoch = Start /\ changes = {} /\ accepting \in SUBSET Event
  /\ rows = {} /\ retry = {} /\ saved = Start /\ missed = {}
  /\ pc = "idle" /\ latest = 0 /\ height = Start
  /\ lastEpoch = 0 /\ isEpoch = FALSE /\ anchor = 0 /\ next = 1
  /\ found = FALSE /\ processed = TRUE
  /\ dep = [stage |-> "idle", todo |-> {}, item |-> {}]
  /\ errors = 0 /\ crashes = 0

-----------------------------------------------------------------------------
(***************************************************************************)
(* MonitorChain.                                                           *)
(***************************************************************************)
ReadPolyHeight ==
  /\ pc = "idle" /\ height + Useful <= tip - 1
  /\ latest' = tip - 1 - Useful
  /\ pc' = "loop"
  /\ UNCHANGED <<tip, starcoin, tables, missed, height, handling, dep, errors,
                 crashes>>

\* Mutant: handles the block of which there is no header yet.
InLoopPastTip == height <= latest + Useful

InLoop == height <= latest

LoopEnds ==
  /\ pc = "loop" /\ ~InLoop
  /\ pc' = "save"
  /\ UNCHANGED <<tip, starcoin, tables, missed, latest, height, handling, dep,
                 errors, crashes>>

FindCurEpochStartHeight ==
  /\ pc = "loop" /\ InLoop
  /\ \/ lastEpoch' = epoch /\ UNCHANGED errors
     \/ lastEpoch' = 0 /\ Error
  /\ pc' = "header"
  /\ UNCHANGED <<tip, starcoin, tables, missed, latest, height, isEpoch, anchor,
                 next, found, processed, dep, crashes>>

IsCurr == lastEpoch < height + 1

NewKeepers == height + 1 \in Epochs /\ epoch # height + 1

\* The header that vouches for the block's: none, the first of the current
\* epoch, or the first that the new book keepers sign.
AnchorAt(h, last, new) ==
  IF last >= h + 1 THEN last + 1 ELSE IF new THEN h + 2 ELSE 0

\* The header and the events are fetched.  An anchor that cannot be had is
\* left out.
GetHeader ==
  /\ pc = "header"
  /\ isEpoch' = NewKeepers
  /\ LET k == AnchorAt(height, lastEpoch, NewKeepers)
     IN \/ anchor' = k /\ UNCHANGED errors
        \/ k # 0 /\ anchor' = NoHeader /\ Error
  /\ next' = 1 /\ found' = FALSE /\ processed' = TRUE
  /\ pc' = "events"
  /\ UNCHANGED <<tip, starcoin, tables, missed, latest, height, lastEpoch, dep,
                 crashes>>

GetHeaderFails ==
  /\ pc = "header" /\ Error
  /\ pc' = "save"
  /\ UNCHANGED <<tip, starcoin, tables, missed, latest, height, handling, dep,
                 crashes>>

InHand(e) ==
  pc = "events" /\ next <= Len(Block[height]) /\ e = Block[height][next]

\* Without a proof the transfer is left out.
GetCrossStatesProofFails(e) ==
  /\ InHand(e)
  /\ Error
  /\ missed' = missed \cup {e}
  /\ next' = next + 1
  /\ UNCHANGED <<tip, starcoin, tables, pc, latest, height, lastEpoch, isEpoch,
                 anchor, found, processed, dep, crashes>>

\* "break! re-process this height!", which leaves the transaction: the ones
\* after it are still handled.
NotSaved(table) == processed' = FALSE /\ UNCHANGED table

\* Puts a row in a table (failed: of the calls it takes, those that fail) and
\* goes on to the next transfer.
Put(r, table, failed) ==
  /\ IF failed = 0 /\ CanPut(r, table)
     THEN table' = table \cup {r} /\ UNCHANGED processed
     ELSE NotSaved(table)
  /\ next' = next + 1 /\ found' = TRUE

\* BridgeTransaction.Serialization drops a header proof without its anchor.
Serialized(k) == IF k = NoHeader THEN 0 ELSE k

\* An account whose state cannot be read is taken not to accept the token.
PutPolyTxRetry(e) ==
  /\ InHand(e)
  /\ \E unread \in {0, 1}, failed \in {0, 1} :
       /\ CheckFee => unread = 0
       /\ ~CheckFee => unread = 1 \/ e \notin accepting
       /\ Fail(unread + failed)
       /\ Put([event |-> e, anchor |-> Serialized(anchor)], retry, failed)
  /\ UNCHANGED <<tip, starcoin, rows, saved, missed, pc, latest, height,
                 lastEpoch, isEpoch, anchor, dep, crashes>>

PutPolyTx(e) ==
  /\ InHand(e)
  /\ ~CheckFee /\ e \in accepting
  /\ \E failed \in {0, 1} :
       Fail(failed) /\ Put([event |-> e, anchor |-> anchor], rows, failed)
  /\ UNCHANGED <<tip, starcoin, retry, saved, missed, pc, latest, height,
                 lastEpoch, isEpoch, anchor, dep, crashes>>

HeightHandled ==
  /\ pc = "events" /\ next > Len(Block[height])
  /\ \/ ~processed /\ pc' = "save" /\ UNCHANGED height
     \/ /\ processed /\ ~found /\ isEpoch /\ IsCurr
        /\ pc' = "change" /\ UNCHANGED height
     \/ /\ processed /\ (found \/ ~isEpoch \/ ~IsCurr)
        /\ pc' = "loop" /\ height' = height + 1
  /\ UNCHANGED <<tip, starcoin, tables, missed, latest, handling, dep, errors,
                 crashes>>

\* Mutant: takes a transaction that was not sent for one that was.
ChangeBookKeeperUnseen ==
  /\ pc = "change"
  /\ \/ changes' = changes \cup {height + 1} /\ UNCHANGED errors
     \/ Error /\ UNCHANGED changes
  /\ pc' = "confirm"
  /\ UNCHANGED <<tip, epoch, accepting, tables, missed, latest, height, handling,
                 dep, crashes>>

\* The answer of the node that has accepted the transaction may be lost.
ChangeBookKeeper ==
  /\ pc = "change"
  /\ \/ changes' = changes \cup {height + 1} /\ pc' = "confirm" /\ UNCHANGED errors
     \/ /\ changes' \in {changes, changes \cup {height + 1}}
        /\ pc' = "save" /\ Error
  /\ UNCHANGED <<tip, epoch, accepting, tables, missed, latest, height, handling,
                 dep, crashes>>

\* Executed, failed or timed out: the height is handled.
WaitTransactionConfirm ==
  /\ pc = "confirm"
  /\ height' = height + 1
  /\ pc' = "loop"
  /\ UNCHANGED <<tip, starcoin, tables, missed, latest, handling, dep, errors,
                 crashes>>

\* Mutant: saves the height to come.
LatestHeight == latest + Useful

SavedHeight == height - 1

UpdatePolyHeight ==
  /\ pc = "save"
  /\ \/ saved' = SavedHeight /\ UNCHANGED errors
     \/ Error /\ UNCHANGED saved
  /\ pc' = "idle"
  /\ UNCHANGED <<tip, starcoin, rows, retry, missed, latest, height, handling,
                 dep, crashes>>

-----------------------------------------------------------------------------
(***************************************************************************)
(* MonitorDeposit.  CheckFee (bridgeutil.go) answers that every fee is     *)
(* paid.                                                                   *)
(***************************************************************************)
DepositIdle == [stage |-> "idle", todo |-> {}, item |-> {}]

GetAllPolyTxRetry ==
  /\ dep.stage = "idle" /\ retry # {}
  /\ dep' = [stage |-> "list", todo |-> retry, item |-> {}]
  /\ UNCHANGED <<tip, starcoin, tables, missed, monitor, errors, crashes>>

\* Mutant: the answer about the token is turned round.
Refuses(e) == e \notin accepting

Accepts(e) == e \in accepting

\* Mutant: a row that could not be saved is deleted all the same.
SkipIgnoringErrors(r) ==
  /\ dep.stage = "list" /\ r \in dep.todo
  /\ \/ /\ ~Accepts(r.event) /\ UNCHANGED errors
        /\ dep' = [dep EXCEPT !.todo = dep.todo \ {r}]
     \/ /\ Accepts(r.event) /\ Error
        /\ dep' = [stage |-> "delete", todo |-> dep.todo \ {r}, item |-> {r}]
  /\ UNCHANGED <<tip, starcoin, tables, missed, monitor, crashes>>

\* Not accepted, not saved, or a call has failed: the row stays.
SkipPolyTxRetry(r) ==
  /\ dep.stage = "list" /\ r \in dep.todo
  /\ \/ ~Accepts(r.event) /\ UNCHANGED errors
     \/ Accepts(r.event) /\ ~CanPut(r, rows) /\ UNCHANGED errors
     \/ Error
  /\ dep' = [dep EXCEPT !.todo = dep.todo \ {r}]
  /\ UNCHANGED <<tip, starcoin, tables, missed, monitor, crashes>>

PutPolyTxThenSend(r) ==
  /\ dep.stage = "list" /\ r \in dep.todo
  /\ Accepts(r.event) /\ CanPut(r, rows)
  /\ rows' = rows \cup {r}
  /\ dep' = [stage |-> "delete", todo |-> dep.todo \ {r}, item |-> {r}]
  /\ UNCHANGED <<tip, starcoin, retry, saved, missed, monitor, errors, crashes>>

\* The row is deleted by its key.
DeletePolyTxRetry(r) ==
  /\ dep.stage = "delete" /\ r \in dep.item
  /\ \/ retry' = {x \in retry : x.event # r.event} /\ UNCHANGED errors
     \/ Error /\ UNCHANGED retry
  /\ dep' = [dep EXCEPT !.stage = "list", !.item = {}]
  /\ UNCHANGED <<tip, starcoin, rows, saved, missed, monitor, crashes>>

RetriesHandled ==
  /\ dep.stage = "list" /\ dep.todo = {}
  /\ dep' = DepositIdle
  /\ UNCHANGED <<tip, starcoin, tables, missed, monitor, errors, crashes>>

-----------------------------------------------------------------------------
InitHeight(s, e) == IF e > s THEN e ELSE s

\* The process dies; PolyManager.init starts from the saved height or the
\* epoch Starcoin is in.  A height that cannot be read is 0.
Crash ==
  /\ crashes < MaxCrashes
  /\ crashes' = crashes + 1
  /\ \/ height' = InitHeight(saved, epoch) /\ UNCHANGED errors
     \/ height' \in {InitHeight(saved, 0), InitHeight(0, epoch)} /\ Error
  /\ pc' = "idle" /\ latest' = 0
  /\ lastEpoch' = 0 /\ isEpoch' = FALSE /\ anchor' = 0 /\ next' = 1
  /\ found' = FALSE /\ processed' = TRUE
  /\ dep' = DepositIdle
  /\ UNCHANGED <<tip, starcoin, tables, missed>>

MonitorStep ==
  \/ ReadPolyHeight \/ LoopEnds \/ FindCurEpochStartHeight
  \/ GetHeader \/ GetHeaderFails
  \/ \E e \in Event : \/ GetCrossStatesProofFails(e) \/ PutPolyTxRetry(e)
                      \/ PutPolyTx(e)
  \/ HeightHandled \/ ChangeBookKeeper \/ WaitTransactionConfirm
  \/ UpdatePolyHeight

DepositStep ==
  \/ GetAllPolyTxRetry
  \/ \E r \in dep.todo : SkipPolyTxRetry(r) \/ PutPolyTxThenSend(r)
  \/ \E r \in dep.item : DeletePolyTxRetry(r)
  \/ RetriesHandled

Next ==
  \/ MonitorStep \/ DepositStep
  \/ NewBlock \/ \E e \in Event : AcceptToken(e)
  \/ \E k \in changes : ChangeBookKeeperRuns(k)
  \/ Crash

Spec == Init /\ [][Next]_vars

\* The two goroutines keep ticking, Poly goes on and Starcoin executes what it
\* has accepted.  Errors, crashes and the acceptance of tokens may happen or
\* not.
FairSpec ==
  /\ Spec
  /\ WF_vars(MonitorStep) /\ WF_vars(DepositStep) /\ WF_vars(NewBlock)
  /\ WF_vars(\E k \in changes : ChangeBookKeeperRuns(k))

-----------------------------------------------------------------------------
(***************************************************************************)
(* Properties.                                                             *)
(***************************************************************************)
Recorded(e) == \E r \in rows \cup retry : r.event = e

\* Heights that are not handled again, by this process or by the one after
\* it: those MonitorChain has passed, and those below the saved height or the
\* epoch on Starcoin.
Passed(h) == h < height \/ h < saved \/ h < epoch

\* No transfer of such a height is missing from the tables, wherever the
\* process died and whatever call failed, but for those without a proof.
NothingMissed ==
  \A h \in Height : \A i \in DOMAIN Block[h] :
    Passed(h) => Recorded(Block[h][i]) \/ Block[h][i] \in missed

\* The transfers of a table.
InTable(table) == {r.event : r \in table}

Intake == INSTANCE TransferIntake WITH
  off <- InTable(retry) \ InTable(rows), committed <- InTable(rows),
  skipped <- missed, done <- {h \in Height : Passed(h)}

(* The scan implements TransferIntake: a row that MonitorDeposit deletes   *)
(* from poly_tx_retry is in poly_tx, only what the account accepts gets    *)
(* there, through poly_tx_retry when fees are checked, and no height is    *)
(* passed, nor put behind by a pending change of book keepers, too early.  *)
ImplementsIntake == Intake!Spec

\* A transfer of the height at hand is in a table with another anchor than it
\* would have now.
Diverged ==
  \E i \in DOMAIN Block[height] : \E r \in rows \cup retry :
    r.event = Block[height][i] /\ r.anchor # AnchorAt(height, epoch, NewKeepers)

\* MonitorChain gets through all the blocks, but for one obstacle: a transfer
\* saved with another anchor.
AllHandled        == <>(height + Useful >= Top)
HandledOrDiverged == AllHandled \/ <>[]Diverged

\* "commit it to Starcoin when account accept" (README): a transfer put off
\* until the account accepts the token is saved in poly_tx after it does.
Committed ==
  \A e \in Event :
    e \in accepting /\ Recorded(e) ~> \E r \in rows : r.event = e

\* Starcoin gets the book keepers of every epoch, unless there are transfers
\* in the block before (or MonitorChain does not get there).
EpochsFollow ==
  \A k \in Epochs :
    k + 1 < Top /\ Block[k - 1] = <<>> => <>(epoch >= k) \/ <>[]Diverged
=============================================================================
