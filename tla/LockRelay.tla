----------------------------- MODULE LockRelay -----------------------------
(***************************************************************************)
(* The Starcoin -> Poly direction of the relayer: StarcoinManager's three  *)
(* goroutines.  MonitorChain sends the headers of confirmed Starcoin       *)
(* blocks to Poly and records their lock events in the retry table;        *)
(* MonitorDeposit imports the recorded events into Poly and moves them to  *)
(* the check table; CheckDeposit looks at what became of the imports and   *)
(* puts the failed ones back.                                              *)
(*                                                                         *)
(* Heights are those of the code less a constant: Poly knows the headers   *)
(* up to Start when the model begins, and Start is beyond the reach of the *)
(* monitor's reset (currentHeight - len(header4sync) does not underflow)   *)
(* and of a rollback that failed calls take too far.                       *)
(* The events modelled are those of later blocks.  Starcoin may reorganise *)
(* once, from height ForkAt on (0: never).                                 *)
(***************************************************************************)
EXTENDS Naturals, Sequences, FiniteSets, Functions

CONSTANTS
  Event,           \* the lock events (CrossTransfer + event)
  BlockOf,         \* the header of the block of each event
  Start,           \* Poly has synced the headers up to here
  Top,             \* bound of the model: the last Starcoin block
  ForkAt,          \* bound of the model: where Starcoin reorganises
  Useful,          \* STARCOIN_USEFUL_BLOCK_NUM
  ProofUseful,     \* STARCOIN_PROOF_USERFUL_BLOCK
  Confirmations,   \* StarcoinConfig.BlockConfirmations
  HeadersPerBatch, \* StarcoinConfig.HeadersPerBatch
  Upsert,          \* PutStarcoinTxRetry replaces a row (BoltDB) or fails (MySQL)
  MaxImports,      \* bounds of the model: imports of one event,
  MaxFailures,     \* imports that fail on Poly for no reason modelled,
  MaxErrors,       \* failed calls of a node or the database,
  MaxCrashes       \* and deaths of the process

Header == [height: 0..Top, fork: {0, 1}]

ASSUME LockConstants ==
  /\ Top \in Nat /\ Start \in 0..Top /\ ForkAt \in 0..Top
  /\ BlockOf \in [Event -> Header]
  /\ Useful \in Nat /\ ProofUseful \in Nat
  /\ Useful <= Start /\ ProofUseful <= Start
  /\ HeadersPerBatch \in Nat \ {0}
  /\ Start > 3 * HeadersPerBatch + MaxErrors
  /\ ForkAt # 0 => ForkAt > 3 * HeadersPerBatch + 1 + MaxErrors
  /\ \A e \in Event : BlockOf[e].height > Start
  /\ Confirmations \in Nat /\ Upsert \in BOOLEAN
  /\ MaxImports \in Nat \ {0}
  /\ MaxFailures \in Nat /\ MaxErrors \in Nat /\ MaxCrashes \in Nat

VARIABLES
  tip, forked,     \* Starcoin: its height, and whether it has reorganised
  headers, best,   \* Poly: the headers it has, and the one it is at
  syncing,         \* header batches it has accepted and not executed yet
  imports,         \* the ImportOuterTransfer transactions it has accepted
  retry, check,    \* the tables of the relayer
  pc, back,        \* MonitorChain, and where commitHeader returns to
  node,            \* the Starcoin height it has read
  height,          \* currentHeight
  batch,           \* header4sync
  todo,            \* the events of the block still to be recorded
  dep,             \* MonitorDeposit
  chk,             \* CheckDeposit
  failures, errors, crashes

starcoin == <<tip, forked>>
poly     == <<headers, best, syncing, imports, failures>>
tables   == <<retry, check>>
monitor  == <<pc, back, node, height, batch, todo>>
vars     == <<starcoin, poly, tables, monitor, dep, chk, errors, crashes>>

Import == [event: Event, n: 1..MaxImports, state: {"pending", "ok", "failed"}]

\* A row of the check table: the hash of the Poly transaction and the event.
Check  == [event: Event, n: 1..MaxImports]
IdOf(x) == [event |-> x.event, n |-> x.n]

\* Where MonitorDeposit and CheckDeposit are in the rows they have read.
Depositing == [stage: {"idle", "list", "check", "delete"}, ref: 0..Top,
               todo: SUBSET Event, item: SUBSET Check]
Checking   == [stage: {"idle", "list", "put", "delete"}, todo: SUBSET Check,
               item: SUBSET Check]

TypeOK ==
  /\ tip \in 0..Top /\ forked \in BOOLEAN
  /\ headers \subseteq Header /\ best \in Header
  /\ syncing \in SUBSET Seq(Header)
  /\ imports \subseteq Import
  /\ retry \subseteq Event /\ check \subseteq Check
  /\ pc \in {"idle", "loop", "fetch", "put", "commit", "confirm"}
  /\ back \in {"idle", "loop"}
  /\ node \in 0..Top /\ height \in 0..Top
  /\ batch \in Seq(Header)
  /\ todo \subseteq Event
  /\ dep \in Depositing /\ chk \in Checking
  /\ failures \in 0..MaxFailures
  /\ errors \in 0..MaxErrors /\ crashes \in 0..MaxCrashes

-----------------------------------------------------------------------------
(***************************************************************************)
(* The two chains, as the relayer uses them.                               *)
(***************************************************************************)
ForkOf(h, f) == IF ForkAt # 0 /\ h >= ForkAt THEN f ELSE 0
Main(h)      == [height |-> h, fork |-> ForkOf(h, IF forked THEN 1 ELSE 0)]
Ancestor(b, h) == [height |-> h, fork |-> ForkOf(h, b.fork)]

\* The header at height h of Poly's main chain for Starcoin, as a set.
PolyMain(h) ==
  IF h <= best.height THEN {Ancestor(best, h)} ELSE {}

\* SyncBlockHeader: each header, and each block it is built on, is known or
\* comes before it in the batch.
Linked(b) ==
  \A i \in DOMAIN b : \A h \in 0..b[i].height :
    Ancestor(b[i], h) \in headers \cup {b[j] : j \in 1..i}

\* Poly moves to the header with the most work behind it.  Starcoin prefers
\* fork 1, so that is the heavier of two headers of one height.
Heavier(a, b) == a.height > b.height \/ (a.height = b.height /\ a.fork > b.fork)

\* ImportOuterTransfer: the proof of the event leads to a header of Poly's
\* main chain.
Imported(e) == \E x \in imports : x.event = e /\ x.state = "ok"
Provable(e) == BlockOf[e] \in PolyMain(BlockOf[e].height)

NewBlock ==
  /\ tip < Top
  /\ tip' = tip + 1
  /\ UNCHANGED <<forked, poly, tables, monitor, dep, chk, errors, crashes>>

Reorganise ==
  /\ ForkAt # 0 /\ ~forked /\ ForkAt <= tip /\ tip < Top
  /\ forked' = TRUE
  /\ UNCHANGED <<tip, poly, tables, monitor, dep, chk, errors, crashes>>

PolySyncs(b) ==
  /\ b \in syncing
  /\ syncing' = syncing \ {b}
  /\ headers' = headers \cup Range(b)
  /\ \E h \in {best} \cup Range(b) :
       /\ \A k \in {best} \cup Range(b) : ~Heavier(k, h)
       /\ best' = h
  /\ UNCHANGED <<starcoin, imports, failures, tables, monitor, dep, chk,
                 errors, crashes>>

PolyImports(x) ==
  LET becomes(s) == imports' = (imports \ {x}) \cup {[x EXCEPT !.state = s]}
  IN  /\ x \in imports /\ x.state = "pending"
      /\ \/ /\ Provable(x.event) /\ ~Imported(x.event)
            /\ becomes("ok") /\ UNCHANGED failures
         \/ /\ ~(Provable(x.event) /\ ~Imported(x.event))
            /\ becomes("failed") /\ UNCHANGED failures
         \/ /\ failures < MaxFailures /\ failures' = failures + 1
            /\ becomes("failed")
      /\ UNCHANGED <<starcoin, headers, best, syncing, tables, monitor, dep,
                     chk, errors, crashes>>

\* A call fails.
Error == errors < MaxErrors /\ errors' = errors + 1

-----------------------------------------------------------------------------
(***************************************************************************)
(* MonitorChain.                                                           *)
(***************************************************************************)
Init ==
  /\ tip = Start /\ forked = FALSE
  /\ headers = {[height |-> h, fork |-> 0] : h \in 0..Start}
  /\ best = [height |-> Start, fork |-> 0]
  /\ syncing = {} /\ imports = {} /\ failures = 0
  /\ retry = {} /\ check = {}
  /\ pc = "idle" /\ back = "idle" /\ node = Start /\ height = Start
  /\ batch = <<>> /\ todo = {}
  /\ dep = [stage |-> "idle", ref |-> 0, todo |-> {}, item |-> {}]
  /\ chk = [stage |-> "idle", todo |-> {}, item |-> {}]
  /\ errors = 0 /\ crashes = 0

ReadNodeHeight ==
  /\ pc = "idle"
  /\ tip > height + Useful
  /\ node' = tip /\ pc' = "loop"
  /\ UNCHANGED <<starcoin, poly, tables, back, height, batch, todo, dep, chk,
                 errors, crashes>>

\* Mutant: handles blocks past the one the node is at.
InLoopPastNode == pc = "loop" /\ height <= node

InLoop == pc = "loop" /\ height + Useful < node

\* Mutant: forgets the headers that wait without going back.
ResetInPlace ==
  /\ InLoop /\ Len(batch) > 3 * HeadersPerBatch
  /\ batch' = <<>>
  /\ pc' = "idle"
  /\ UNCHANGED <<starcoin, poly, tables, back, node, height, todo, dep, chk,
                 errors, crashes>>

\* Too many headers wait: start again from before them.
Reset ==
  /\ InLoop /\ Len(batch) > 3 * HeadersPerBatch
  /\ height' = height - Len(batch)
  /\ batch' = <<>>
  /\ pc' = "idle"
  /\ UNCHANGED <<starcoin, poly, tables, back, node, todo, dep, chk, errors,
                 crashes>>

\* A header Poly has on its main chain already is not sent again, unless
\* Poly does not answer: that error is ignored.
HandleBlockHeader ==
  /\ InLoop /\ Len(batch) <= 3 * HeadersPerBatch
  /\ \/ /\ batch' = IF Main(height + 1) \in PolyMain(height + 1)
                    THEN batch ELSE Append(batch, Main(height + 1))
        /\ pc' = "fetch" /\ UNCHANGED errors
     \/ Error /\ pc' = "fetch" /\ batch' = Append(batch, Main(height + 1))
     \/ Error /\ pc' = "idle" /\ UNCHANGED batch
  /\ UNCHANGED <<starcoin, poly, tables, back, node, height, todo, dep, chk,
                 crashes>>

\* Mutant: a block whose events cannot be fetched counts as handled.
FetchIgnoringErrors ==
  /\ pc = "fetch"
  /\ \/ /\ todo' = {e \in Event : BlockOf[e] = Main(height + 1)}
        /\ UNCHANGED errors
     \/ Error /\ todo' = {}
  /\ pc' = "put"
  /\ UNCHANGED <<starcoin, poly, tables, back, node, height, batch, dep, chk,
                 crashes>>

FetchLockDepositEvents ==
  /\ pc = "fetch"
  /\ \/ /\ todo' = {e \in Event : BlockOf[e] = Main(height + 1)}
        /\ pc' = "put" /\ UNCHANGED errors
     \/ Error /\ pc' = "idle" /\ UNCHANGED todo
  /\ UNCHANGED <<starcoin, poly, tables, back, node, height, batch, dep, chk,
                 crashes>>

\* Mutant: an event that cannot be recorded does not fail the block.
PutIgnoringErrors(e) ==
  /\ pc = "put" /\ e \in todo
  /\ \/ /\ Upsert \/ e \notin retry
        /\ retry' = retry \cup {e} /\ UNCHANGED errors
     \/ /\ (~Upsert /\ e \in retry /\ UNCHANGED errors) \/ Error
        /\ UNCHANGED retry
  /\ todo' = todo \ {e}
  /\ UNCHANGED <<starcoin, poly, check, pc, back, node, height, batch, dep,
                 chk, crashes>>

\* An event that cannot be recorded fails the block: its height is handled
\* again at the next tick.
PutStarcoinTxRetry(e) ==
  /\ pc = "put" /\ e \in todo
  /\ \/ /\ Upsert \/ e \notin retry
        /\ retry' = retry \cup {e}
        /\ todo' = todo \ {e} /\ UNCHANGED <<pc, errors>>
     \/ /\ (~Upsert /\ e \in retry /\ UNCHANGED errors) \/ Error
        /\ todo' = {} /\ pc' = "idle" /\ UNCHANGED retry
  /\ UNCHANGED <<starcoin, poly, check, back, node, height, batch, dep, chk,
                 crashes>>

BlockHandled ==
  /\ pc = "put" /\ todo = {}
  /\ height' = height + 1
  /\ pc' = IF Len(batch) >= HeadersPerBatch THEN "commit" ELSE "loop"
  /\ back' = "loop"
  /\ UNCHANGED <<starcoin, poly, tables, node, batch, todo, dep, chk, errors,
                 crashes>>

LoopEnds ==
  /\ pc = "loop" /\ ~InLoop
  /\ pc' = IF batch # <<>> THEN "commit" ELSE "idle"
  /\ back' = "idle"
  /\ UNCHANGED <<starcoin, poly, tables, node, height, batch, todo, dep, chk,
                 errors, crashes>>

CommitHeader ==
  /\ pc = "commit" /\ Linked(batch)
  /\ syncing' = syncing \cup {batch}
  /\ pc' = "confirm"
  /\ UNCHANGED <<starcoin, headers, best, imports, failures, tables, back,
                 node, height, batch, todo, dep, chk, errors, crashes>>

\* The headers stay in header4sync and are sent with later ones: Starcoin goes
\* on after it.
CommitHeaderFails ==
  /\ pc = "commit" /\ tip < Top
  /\ Error /\ pc' = "idle"
  /\ UNCHANGED <<starcoin, poly, tables, back, node, height, batch, todo, dep,
                 chk, crashes>>

\* Mutant: any header of Poly's at the height will do.
SomeOnPoly(h) == PolyMain(h) # {}

SameOnPoly(h) == Main(h) \in PolyMain(h)

\* The common headers above h, at which Poly did not answer: that counts as
\* a header it does not have.
Missed(h) == {k \in (h + 1)..height : SameOnPoly(k)}

\* "get the parent block failed": go back to the last header both chains have.
RollBackToCommAncestor ==
  /\ pc = "commit" /\ ~Linked(batch)
  /\ \E h \in 0..height :
       /\ SameOnPoly(h)
       /\ errors + Cardinality(Missed(h)) <= MaxErrors
       /\ errors' = errors + Cardinality(Missed(h))
       /\ height' = h
  /\ batch' = <<>>
  /\ pc' = back
  /\ UNCHANGED <<starcoin, poly, tables, back, node, todo, dep, chk, crashes>>

HeaderConfirmed ==
  /\ pc = "confirm" /\ batch \notin syncing
  /\ batch' = <<>>
  /\ pc' = back
  /\ UNCHANGED <<starcoin, poly, tables, back, node, height, todo, dep, chk,
                 errors, crashes>>

-----------------------------------------------------------------------------
(***************************************************************************)
(* MonitorDeposit.                                                         *)
(***************************************************************************)
DepositIdle == [stage |-> "idle", ref |-> 0, todo |-> {}, item |-> {}]

\* It reads the synced height and the whole retry table.
GetAllStarcoinTxRetry ==
  /\ dep.stage = "idle" /\ retry # {}
  /\ best.height + ProofUseful > tip
  /\ dep' = [stage |-> "list", ref |-> best.height, todo |-> retry, item |-> {}]
  /\ UNCHANGED <<starcoin, poly, tables, monitor, chk, errors, crashes>>

ImportsOf(e) == Cardinality({x \in imports : x.event = e})

Confirmed(e) == dep.ref > BlockOf[e].height + Confirmations

\* Not confirmed, or refused by Poly for a reason that may pass: the row
\* stays.
SkipDeposit(e) ==
  /\ dep.stage = "list" /\ e \in dep.todo
  /\ \/ ~Confirmed(e) /\ UNCHANGED errors
     \/ Confirmed(e) /\ ~Imported(e) /\ ~Provable(e) /\ UNCHANGED errors
     \/ Confirmed(e) /\ Error
     \/ Confirmed(e) /\ ImportsOf(e) = MaxImports /\ UNCHANGED errors
  /\ dep' = [dep EXCEPT !.todo = dep.todo \ {e}]
  /\ UNCHANGED <<starcoin, poly, tables, monitor, chk, crashes>>

\* The proof of an event cannot be had: the rest of the list waits too.
GetTransactionProofFails(e) ==
  /\ dep.stage = "list" /\ e \in dep.todo /\ Confirmed(e)
  /\ Error
  /\ dep' = DepositIdle
  /\ UNCHANGED <<starcoin, poly, tables, monitor, chk, crashes>>

\* "tx already done".
DeleteDone(e) ==
  /\ dep.stage = "list" /\ e \in dep.todo /\ Confirmed(e)
  /\ Imported(e)
  /\ retry' = retry \ {e}
  /\ dep' = [dep EXCEPT !.todo = dep.todo \ {e}]
  /\ UNCHANGED <<starcoin, poly, check, monitor, chk, errors, crashes>>

CommitProof(e) ==
  /\ dep.stage = "list" /\ e \in dep.todo /\ Confirmed(e)
  /\ ~Imported(e) /\ Provable(e)
  /\ \E n \in 1..MaxImports :
       /\ n = ImportsOf(e) + 1
       /\ imports' = imports \cup {[event |-> e, n |-> n, state |-> "pending"]}
       /\ dep' = [dep EXCEPT !.stage = "check", !.todo = dep.todo \ {e},
                             !.item = {[event |-> e, n |-> n]}]
  /\ UNCHANGED <<starcoin, headers, best, syncing, failures, tables, monitor,
                 chk, errors, crashes>>

\* An error of either statement is logged and ignored.
PutStarcoinTxCheck(c) ==
  /\ dep.stage = "check" /\ c \in dep.item
  /\ \/ check' = check \cup {c} /\ UNCHANGED errors
     \/ Error /\ UNCHANGED check
  /\ dep' = [dep EXCEPT !.stage = "delete"]
  /\ UNCHANGED <<starcoin, poly, retry, monitor, chk, crashes>>

DeleteStarcoinTxRetry(c) ==
  /\ dep.stage = "delete" /\ c \in dep.item
  /\ \/ retry' = retry \ {c.event} /\ UNCHANGED errors
     \/ Error /\ UNCHANGED retry
  /\ dep' = [dep EXCEPT !.stage = "list", !.item = {}]
  /\ UNCHANGED <<starcoin, poly, check, monitor, chk, crashes>>

DepositsHandled ==
  /\ dep.stage = "list" /\ dep.todo = {}
  /\ dep' = DepositIdle
  /\ UNCHANGED <<starcoin, poly, tables, monitor, chk, errors, crashes>>

-----------------------------------------------------------------------------
(***************************************************************************)
(* CheckDeposit.                                                           *)
(***************************************************************************)
CheckIdle == [stage |-> "idle", todo |-> {}, item |-> {}]

GetAllStarcoinTxCheck ==
  /\ chk.stage = "idle" /\ check # {}
  /\ chk' = [stage |-> "list", todo |-> check, item |-> {}]
  /\ UNCHANGED <<starcoin, poly, tables, monitor, dep, errors, crashes>>

\* The event of a Poly transaction that has not been executed is nil.
GetSmartContractEvent(x) ==
  /\ chk.stage = "list" /\ IdOf(x) \in chk.todo
  /\ \/ /\ Error \/ (x.state = "pending" /\ UNCHANGED errors)
        /\ chk' = [chk EXCEPT !.todo = chk.todo \ {IdOf(x)}]
     \/ /\ x.state # "pending" /\ UNCHANGED errors
        /\ chk' = [chk EXCEPT !.todo = chk.todo \ {IdOf(x)},
                              !.stage = IF x.state = "ok" THEN "delete" ELSE "put",
                              !.item = {IdOf(x)}]
  /\ UNCHANGED <<starcoin, poly, tables, monitor, dep, crashes>>

\* An error, be it that the row is there, is logged and ignored.
PutFailedBack(c) ==
  /\ chk.stage = "put" /\ c \in chk.item
  /\ \/ retry' = retry \cup {c.event} /\ UNCHANGED errors
     \/ Error /\ UNCHANGED retry
  /\ chk' = [chk EXCEPT !.stage = "delete"]
  /\ UNCHANGED <<starcoin, poly, check, monitor, dep, crashes>>

DeleteStarcoinTxCheck(c) ==
  /\ chk.stage = "delete" /\ c \in chk.item
  /\ \/ check' = check \ {c} /\ UNCHANGED errors
     \/ Error /\ UNCHANGED check
  /\ chk' = [chk EXCEPT !.stage = "list", !.item = {}]
  /\ UNCHANGED <<starcoin, poly, retry, monitor, dep, crashes>>

ChecksHandled ==
  /\ chk.stage = "list" /\ chk.todo = {}
  /\ chk' = CheckIdle
  /\ UNCHANGED <<starcoin, poly, tables, monitor, dep, errors, crashes>>

-----------------------------------------------------------------------------
\* Mutant: start from the height Starcoin is at.
InitFromNode == tip

InitHeight == best.height

\* The process dies; StarcoinManager.init starts from the height Poly is at.
Crash ==
  /\ crashes < MaxCrashes
  /\ crashes' = crashes + 1
  /\ pc' = "idle" /\ back' = "idle" /\ node' = 0
  /\ height' = InitHeight /\ batch' = <<>> /\ todo' = {}
  /\ dep' = DepositIdle /\ chk' = CheckIdle
  /\ UNCHANGED <<starcoin, poly, tables, errors>>

MonitorStep ==
  \/ ReadNodeHeight \/ Reset \/ HandleBlockHeader \/ FetchLockDepositEvents
  \/ \E e \in Event : PutStarcoinTxRetry(e)
  \/ BlockHandled \/ LoopEnds
  \/ CommitHeader \/ CommitHeaderFails \/ RollBackToCommAncestor
  \/ HeaderConfirmed

DepositStep ==
  \/ GetAllStarcoinTxRetry
  \/ \E e \in Event : \/ SkipDeposit(e) \/ GetTransactionProofFails(e)
                      \/ DeleteDone(e) \/ CommitProof(e)
  \/ \E c \in dep.item : PutStarcoinTxCheck(c) \/ DeleteStarcoinTxRetry(c)
  \/ DepositsHandled

CheckStep ==
  \/ GetAllStarcoinTxCheck
  \/ \E x \in imports : GetSmartContractEvent(x)
  \/ \E c \in chk.item : PutFailedBack(c) \/ DeleteStarcoinTxCheck(c)
  \/ ChecksHandled

PolyStep ==
  \/ \E b \in syncing : PolySyncs(b)
  \/ \E x \in imports : PolyImports(x)

Next ==
  \/ MonitorStep \/ DepositStep \/ CheckStep \/ PolyStep
  \/ NewBlock \/ Reorganise \/ Crash

Spec == Init /\ [][Next]_vars

\* The three goroutines keep ticking, Poly executes what it has accepted and
\* Starcoin goes on.  Errors, failures, crashes and the reorganisation may
\* happen or not.
FairSpec ==
  /\ Spec
  /\ WF_vars(MonitorStep) /\ WF_vars(DepositStep) /\ WF_vars(CheckStep)
  /\ WF_vars(PolyStep) /\ WF_vars(NewBlock)

-----------------------------------------------------------------------------
(***************************************************************************)
(* Properties.                                                             *)
(***************************************************************************)
OnMain(e) == BlockOf[e].height <= tip /\ BlockOf[e] = Main(BlockOf[e].height)

\* MonitorChain has recorded the event, MonitorDeposit has submitted it.
Recorded(e)  == e \in retry \/ \E x \in imports : x.event = e
Submitted(e) == \E x \in imports : x.event = e

\* No header is on Poly before the lock events of its block are recorded, so
\* that a relayer that starts again from Poly's height skips none of them,
\* wherever it died and whatever call failed.
NoEventSkipped ==
  \A e \in Event : OnMain(e) /\ BlockOf[e] \in headers => Recorded(e)

\* The header of every block MonitorChain has handled is on Poly, on its way
\* there or waiting in header4sync, although header4sync is dropped and built
\* again by resets and restarts (while Starcoin does not reorganise).
NoHeaderSkipped ==
  ~forked => \A h \in 1..height :
               \/ Main(h) \in headers \cup Range(batch)
               \/ \E b \in syncing : Main(h) \in Range(b)

\* A lock event of a Starcoin block is imported into Poly in the end, unless
\* Starcoin abandons the block.
Relayed == \A e \in Event : OnMain(e) ~> Imported(e) \/ ~OnMain(e)

\* Poly ends up on Starcoin's chain, with every block that is deep enough.
PolyFollows == <>[](best = Main(tip - Useful))

\* "put to check db for checking" (step 4 of handleLockDepositEvents): a
\* transfer that has been recorded stays in one of the two tables, or is in
\* the hands of MonitorDeposit, until Poly has imported it.
InHand(e) ==
  \/ e \in retry \/ Imported(e)
  \/ \E c \in check : c.event = e
  \/ dep.stage = "check" /\ \E c \in dep.item : c.event = e

TransferIsKept == [][\A e \in Event : InHand(e) => InHand(e)']_vars

\* The relay implements LockDelivery.  Both branches of a reorganisation go on,
\* as far as the blocks produced are concerned.
Produced == {k \in Header : k.height <= tip /\ (k.fork = 0 \/ forked)}

Delivery == INSTANCE LockDelivery WITH
  Block     <- Header,
  Below     <- [k \in Header |-> {Ancestor(k, h) : h \in 0..k.height}],
  Weight    <- [k \in Header |-> 2 * k.height + k.fork],
  First     <- [height |-> Start, fork |-> 0],
  produced  <- Produced,
  main      <- {Main(h) : h \in 0..tip},
  recorded  <- {e \in Event : Recorded(e)},
  submitted <- {e \in Event : Submitted(e)},
  imported  <- {e \in Event : Imported(e)}

\* Whatever the interleaving, the failed calls, the deaths and the
\* reorganisation, a step of the goroutines and of Poly is a step of
\* LockDelivery or none: no header before the events of its block, no
\* submission of an event that is not recorded, nothing recorded forgotten.
ImplementsLockDelivery == Delivery!Spec
=============================================================================
