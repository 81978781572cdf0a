-------------------------- MODULE LockRelayProofs --------------------------
(***************************************************************************)
(* The safety of the lock relay: no lock event and no header is skipped,   *)
(* for all values of the constants, with the reorganisation, the failed    *)
(* calls and the deaths of the process that LockRelay allows.              *)
(***************************************************************************)
EXTENDS LockRelay, FiniteSetTheorems, TLAPS

Blocks == [height : 0..Top, fork : {0, 1}]

\* The most headers that wait in header4sync.
Limit == 3 * HeadersPerBatch + 1

InSyncing(k) == \E b \in syncing : k \in Range(b)

\* Poly's headers hold their ancestors, and those of the batches on their way
\* will.
Chain ==
  /\ \A k \in headers : \A h \in 0..k.height : Ancestor(k, h) \in headers
  /\ best \in headers /\ best.height >= Start
  /\ \A b \in syncing : Linked(b)

\* Nobody has a header of the new fork before there is one.
Forks ==
  ~forked => /\ \A k \in headers : k.fork = 0
             /\ \A i \in DOMAIN batch : batch[i].fork = 0
             /\ \A b \in syncing : \A i \in DOMAIN b : b[i].fork = 0

\* The queue is short.
Queue ==
  /\ Len(batch) <= Limit
  /\ pc \in {"fetch", "put"} => height + Useful < node
  /\ pc = "confirm" => batch \in syncing \/ Range(batch) \subseteq headers

\* A queue is not longer than the chain below it: at the heights that a reset
\* goes back to, each header that is queued and each common header that a
\* rollback misses costs a failed call.
Deep == Len(batch) + MaxErrors <= height + errors

\* The height MonitorChain has handled, or is handling after the header.
Reached == IF pc \in {"fetch", "put"} THEN height + 1 ELSE height

\* A header that is neither on Poly nor on its way waits in header4sync, with
\* those of the heights after it behind it: a reset goes back far enough.
Waiting ==
  ~forked => \A h \in 1..Reached :
               \/ Main(h) \in headers
               \/ InSyncing(Main(h))
               \/ \E i \in DOMAIN batch : /\ batch[i] = Main(h)
                                          /\ i + (Reached - h) <= Len(batch)

Canonical(e) == BlockOf[e] = Main(BlockOf[e].height)

\* The block of the event is the one in hand.
InHandling(e) ==
  /\ BlockOf[e].height = height + 1
  /\ pc \in {"idle", "loop", "fetch", "put"}
  /\ pc = "loop" => InLoop
  /\ pc = "put" => e \in todo

\* Headers are sent after the events of their blocks are recorded.
Recording ==
  \A e \in Event : Canonical(e) =>
    /\ BlockOf[e] \in headers => Recorded(e)
    /\ InSyncing(BlockOf[e]) => Recorded(e)
    /\ BlockOf[e] \in Range(batch) => Recorded(e) \/ InHandling(e)

\* What MonitorDeposit is about to delete from the retry table is on Poly.
Items == \A c \in dep.item : \E x \in imports : x.event = c.event

IndInv == /\ TypeOK /\ Chain /\ Forks /\ Queue /\ Deep /\ Waiting /\ Recording
          /\ Items

-----------------------------------------------------------------------------
\* The constants as the proofs use them.
LEMMA Constants ==
  /\ Top \in Nat /\ Start \in Nat /\ Start <= Top /\ ForkAt \in Nat /\ ForkAt <= Top
  /\ Useful \in Nat /\ ProofUseful \in Nat /\ Confirmations \in Nat
  /\ HeadersPerBatch \in Nat /\ HeadersPerBatch > 0
  /\ Limit \in Nat /\ Limit + MaxErrors <= Start
  /\ ForkAt # 0 => ForkAt > Limit + MaxErrors
  /\ BlockOf \in [Event -> Header]
  /\ \A e \in Event : BlockOf[e].height > Start
  /\ MaxImports \in Nat /\ MaxFailures \in Nat /\ MaxErrors \in Nat /\ MaxCrashes \in Nat
BY LockConstants DEF LockConstants, Limit

\* The blocks of the two chains are headers.
LEMMA MainIsHeader ==
  ASSUME NEW h \in 0..Top
  PROVE  Main(h) \in Header /\ Main(h).height = h
BY Constants DEF Main, ForkOf, Header

\* The headers of a longer and of an empty queue.
LEMMA QueueRange ==
  ASSUME NEW s \in Seq(Header), NEW k \in Header
  PROVE  /\ Append(s, k) \in Seq(Header)
         /\ Len(s) \in Nat /\ DOMAIN s = 1..Len(s)
         /\ Len(Append(s, k)) = Len(s) + 1
         /\ DOMAIN Append(s, k) = 1..(Len(s) + 1)
         /\ Append(s, k)[Len(s) + 1] = k
         /\ \A i \in 1..Len(s) : Append(s, k)[i] = s[i]
         /\ Range(Append(s, k)) = Range(s) \cup {k}
         /\ Range(s) \subseteq Header
<1>1. /\ Append(s, k) \in Seq(Header)
      /\ Len(s) \in Nat /\ DOMAIN s = 1..Len(s)
      /\ Len(Append(s, k)) = Len(s) + 1
      /\ DOMAIN Append(s, k) = 1..(Len(s) + 1)
      /\ Append(s, k)[Len(s) + 1] = k
      /\ \A i \in 1..Len(s) : Append(s, k)[i] = s[i]
  OBVIOUS
<1>2. Range(Append(s, k)) = Range(s) \cup {k}
  <2>1. ASSUME NEW y \in Range(Append(s, k)) PROVE y \in Range(s) \cup {k}
    <3>1. PICK i \in 1..(Len(s) + 1) : y = Append(s, k)[i]
      BY <1>1, <2>1 DEF Range
    <3>2. i = Len(s) + 1 \/ i \in 1..Len(s)
      BY <1>1
    <3> QED
      BY <1>1, <3>1, <3>2 DEF Range
  <2>2. ASSUME NEW y \in Range(s) \cup {k} PROVE y \in Range(Append(s, k))
    BY <1>1, <2>2 DEF Range
  <2> QED
    BY <2>1, <2>2
<1>3. Range(s) \subseteq Header
  BY <1>1 DEF Range
<1> QED
  BY <1>1, <1>2, <1>3

LEMMA EmptyQueue == Range(<<>>) = {} /\ <<>> \in Seq(Header) /\ Len(<<>>) = 0
BY DEF Range

-----------------------------------------------------------------------------
(***************************************************************************)
(* Types.                                                                  *)
(***************************************************************************)
\* Every action leaves the number of errors in its bounds.
LEMMA ErrorBound ==
  ASSUME TypeOK, UNCHANGED errors \/ Error
  PROVE  errors' \in 0..MaxErrors
<1>1. errors \in 0..MaxErrors
  BY DEF TypeOK
<1>2. MaxErrors \in Nat
  BY Constants
<1> QED
  BY <1>1, <1>2 DEF Error

\* There are finitely many headers between two heights.
LEMMA MissedCount ==
  ASSUME TypeOK, NEW h \in 0..height
  PROVE  IsFiniteSet(Missed(h)) /\ Cardinality(Missed(h)) \in Nat
<1>1. IsFiniteSet((h + 1)..height)
  BY FS_Interval DEF TypeOK
<1>2. Missed(h) \subseteq (h + 1)..height
  BY DEF Missed
<1>3. IsFiniteSet(Missed(h))
  BY <1>1, <1>2, FS_Subset
<1> QED
  BY <1>3, FS_CardinalityType

\* MonitorChain keeps the types: its height does not pass the node's, and a
\* reset does not go below zero.
LEMMA MonitorTypes ==
  ASSUME TypeOK, Chain, Queue, Deep, MonitorStep
  PROVE  TypeOK'
<1> USE Constants DEF TypeOK, starcoin, poly, tables, monitor, Error
<1>1. CASE ReadNodeHeight
  BY <1>1 DEF ReadNodeHeight
<1>2. CASE Reset
  <2>1. Len(batch) \in Nat /\ batch # <<>>
    BY <1>2, EmptyQueue DEF Reset
  <2>2. height - Len(batch) \in 0..Top
    BY <2>1 DEF Deep
  <2> QED
    BY <1>2, <2>2, EmptyQueue DEF Reset
<1>3. CASE HandleBlockHeader
  <2>1. height + 1 \in 0..Top
    BY <1>3 DEF HandleBlockHeader, InLoop
  <2>2. batch' \in Seq(Header)
    <3> Main(height + 1) \in Header
      BY <2>1, MainIsHeader
    <3> QED
      BY <1>3, QueueRange DEF HandleBlockHeader
  <2> QED
    BY <1>3, <2>2 DEF HandleBlockHeader
<1>4. CASE FetchLockDepositEvents
  BY <1>4 DEF FetchLockDepositEvents
<1>5. ASSUME NEW e \in Event, PutStarcoinTxRetry(e) PROVE TypeOK'
  BY <1>5 DEF PutStarcoinTxRetry
<1>6. CASE BlockHandled
  <2>1. height + 1 \in 0..Top
    BY <1>6 DEF BlockHandled, Queue
  <2> QED
    BY <1>6, <2>1 DEF BlockHandled
<1>7. CASE LoopEnds
  BY <1>7 DEF LoopEnds
<1>8. CASE CommitHeader
  BY <1>8 DEF CommitHeader
<1>9. CASE CommitHeaderFails
  BY <1>9 DEF CommitHeaderFails
<1>10. CASE RollBackToCommAncestor
  <2>1. errors' \in 0..MaxErrors
    BY <1>10, MissedCount DEF RollBackToCommAncestor
  <2> QED
    BY <1>10, <2>1, EmptyQueue DEF RollBackToCommAncestor
<1>11. CASE HeaderConfirmed
  BY <1>11, EmptyQueue DEF HeaderConfirmed
<1> QED
  BY <1>1, <1>2, <1>3, <1>4, <1>5, <1>6, <1>7, <1>8, <1>9, <1>10, <1>11
     DEF MonitorStep

\* The record of CommitProof, and what CheckDeposit makes of its own.
LEMMA NewImport ==
  ASSUME NEW e \in Event, NEW n \in 1..MaxImports
  PROVE  /\ [event |-> e, n |-> n, state |-> "pending"] \in Import
         /\ {[event |-> e, n |-> n]} \subseteq Check
BY DEF Import, Check

LEMMA NextCheck ==
  ASSUME NEW r \in Checking, NEW s \in {"put", "delete"}, NEW c \in Check
  PROVE  /\ [r EXCEPT !.todo = r.todo \ {c}] \in Checking
         /\ [r EXCEPT !.todo = r.todo \ {c}, !.stage = s, !.item = {c}]
              \in Checking
BY DEF Checking

\* So does MonitorDeposit.
LEMMA DepositTypes ==
  ASSUME TypeOK, DepositStep
  PROVE  TypeOK'
<1> USE Constants DEF TypeOK, starcoin, poly, tables, monitor
<1>1. CASE GetAllStarcoinTxRetry
  <2>1. best.height \in 0..Top
    BY DEF Header
  <2>2. dep' \in Depositing
    BY <1>1, <2>1 DEF GetAllStarcoinTxRetry, Depositing
  <2> QED
    BY <1>1, <2>2 DEF GetAllStarcoinTxRetry
<1>2. ASSUME NEW e \in Event, SkipDeposit(e) PROVE TypeOK'
  <2>1. dep' \in Depositing
    BY <1>2 DEF SkipDeposit, Depositing
  <2>2. errors' \in 0..MaxErrors
    <3>1. UNCHANGED errors \/ Error
      BY <1>2 DEF SkipDeposit
    <3> QED
      BY <3>1, ErrorBound
  <2> QED
    BY <1>2, <2>1, <2>2 DEF SkipDeposit
<1>3. ASSUME NEW e \in Event, GetTransactionProofFails(e) PROVE TypeOK'
  <2>1. dep' \in Depositing
    BY <1>3 DEF GetTransactionProofFails, Depositing, DepositIdle
  <2>2. errors' \in 0..MaxErrors
    <3>1. UNCHANGED errors \/ Error
      BY <1>3 DEF GetTransactionProofFails
    <3> QED
      BY <3>1, ErrorBound
  <2> QED
    BY <1>3, <2>1, <2>2 DEF GetTransactionProofFails
<1>4. ASSUME NEW e \in Event, DeleteDone(e) PROVE TypeOK'
  <2>1. dep' \in Depositing
    BY <1>4 DEF DeleteDone, Depositing
  <2> QED
    BY <1>4, <2>1 DEF DeleteDone
<1>5. ASSUME NEW e \in Event, CommitProof(e) PROVE TypeOK'
  <2>1. PICK n \in 1..MaxImports :
          /\ imports' = imports \cup {[event |-> e, n |-> n, state |-> "pending"]}
          /\ dep' = [dep EXCEPT !.stage = "check", !.todo = dep.todo \ {e},
                                !.item = {[event |-> e, n |-> n]}]
    BY <1>5 DEF CommitProof
  <2>2. imports' \subseteq Import
    BY <2>1, NewImport
  <2>3. {[event |-> e, n |-> n]} \subseteq Check
    BY NewImport
  <2>4. dep' \in Depositing
    BY <2>1, <2>3 DEF Depositing
  <2> QED
    BY <1>5, <2>2, <2>4 DEF CommitProof
<1>6. ASSUME NEW c \in dep.item, PutStarcoinTxCheck(c) PROVE TypeOK'
  <2>1. dep' \in Depositing
    BY <1>6 DEF PutStarcoinTxCheck, Depositing
  <2>2. check' \subseteq Check
    BY <1>6 DEF PutStarcoinTxCheck, Depositing
  <2>3. errors' \in 0..MaxErrors
    <3>1. UNCHANGED errors \/ Error
      BY <1>6 DEF PutStarcoinTxCheck
    <3> QED
      BY <3>1, ErrorBound
  <2> QED
    BY <1>6, <2>1, <2>2, <2>3 DEF PutStarcoinTxCheck
<1>7. ASSUME NEW c \in dep.item, DeleteStarcoinTxRetry(c) PROVE TypeOK'
  <2>1. dep' \in Depositing
    BY <1>7 DEF DeleteStarcoinTxRetry, Depositing
  <2>2. retry' \subseteq Event
    BY <1>7 DEF DeleteStarcoinTxRetry
  <2>3. errors' \in 0..MaxErrors
    <3>1. UNCHANGED errors \/ Error
      BY <1>7 DEF DeleteStarcoinTxRetry
    <3> QED
      BY <3>1, ErrorBound
  <2> QED
    BY <1>7, <2>1, <2>2, <2>3 DEF DeleteStarcoinTxRetry
<1>8. CASE DepositsHandled
  <2>1. dep' \in Depositing
    BY <1>8 DEF DepositsHandled, Depositing, DepositIdle
  <2> QED
    BY <1>8, <2>1 DEF DepositsHandled
<1> QED
  BY <1>1, <1>2, <1>3, <1>4, <1>5, <1>6, <1>7, <1>8 DEF DepositStep

\* So does CheckDeposit.
LEMMA CheckTypes ==
  ASSUME TypeOK, CheckStep
  PROVE  TypeOK'
<1> USE Constants DEF TypeOK, starcoin, poly, tables, monitor
<1>1. CASE GetAllStarcoinTxCheck
  <2>1. chk' \in Checking
    BY <1>1 DEF GetAllStarcoinTxCheck, Checking
  <2> QED
    BY <1>1, <2>1 DEF GetAllStarcoinTxCheck
<1>2. ASSUME NEW x \in imports, GetSmartContractEvent(x) PROVE TypeOK'
  <2>1. IdOf(x) \in Check
    BY DEF IdOf, Import, Check
  <2>3. chk' = [chk EXCEPT !.todo = chk.todo \ {IdOf(x)}]
        \/ \E s \in {"put", "delete"} :
             chk' = [chk EXCEPT !.todo = chk.todo \ {IdOf(x)}, !.stage = s,
                                !.item = {IdOf(x)}]
    BY <1>2 DEF GetSmartContractEvent
  <2>4. chk' \in Checking
    <3>1. chk \in Checking
      OBVIOUS
    <3>2. /\ [chk EXCEPT !.todo = chk.todo \ {IdOf(x)}] \in Checking
          /\ \A s \in {"put", "delete"} :
               [chk EXCEPT !.todo = chk.todo \ {IdOf(x)}, !.stage = s,
                           !.item = {IdOf(x)}] \in Checking
      BY ONLY <2>1, <3>1, NextCheck, Zenon
    <3> QED
      BY <2>3, <3>2, Zenon
  <2>5. errors' \in 0..MaxErrors
    <3>1. UNCHANGED errors \/ Error
      BY <1>2 DEF GetSmartContractEvent
    <3> QED
      BY <3>1, ErrorBound
  <2> QED
    BY <1>2, <2>4, <2>5 DEF GetSmartContractEvent
<1>3. ASSUME NEW c \in chk.item, PutFailedBack(c) PROVE TypeOK'
  <2>1. chk' \in Checking
    BY <1>3 DEF PutFailedBack, Checking
  <2>2. c.event \in Event
    BY DEF Checking, Check
  <2>3. retry' \subseteq Event
    BY <1>3, <2>2 DEF PutFailedBack
  <2>4. errors' \in 0..MaxErrors
    <3>1. UNCHANGED errors \/ Error
      BY <1>3 DEF PutFailedBack
    <3> QED
      BY <3>1, ErrorBound
  <2> QED
    BY <1>3, <2>1, <2>3, <2>4 DEF PutFailedBack
<1>4. ASSUME NEW c \in chk.item, DeleteStarcoinTxCheck(c) PROVE TypeOK'
  <2>1. chk' \in Checking
    BY <1>4 DEF DeleteStarcoinTxCheck, Checking
  <2>2. check' \subseteq Check
    BY <1>4 DEF DeleteStarcoinTxCheck
  <2>3. errors' \in 0..MaxErrors
    <3>1. UNCHANGED errors \/ Error
      BY <1>4 DEF DeleteStarcoinTxCheck
    <3> QED
      BY <3>1, ErrorBound
  <2> QED
    BY <1>4, <2>1, <2>2, <2>3 DEF DeleteStarcoinTxCheck
<1>5. CASE ChecksHandled
  <2>1. chk' \in Checking
    BY <1>5 DEF ChecksHandled, Checking, CheckIdle
  <2> QED
    BY <1>5, <2>1 DEF ChecksHandled
<1> QED
  BY <1>1, <1>2, <1>3, <1>4, <1>5 DEF CheckStep

\* So do the chains and the death of the process.
LEMMA WorldTypes ==
  ASSUME TypeOK, PolyStep \/ NewBlock \/ Reorganise \/ Crash
  PROVE  TypeOK'
<1> USE Constants DEF TypeOK, starcoin, poly, tables, monitor
<1>1. ASSUME NEW b \in syncing, PolySyncs(b) PROVE TypeOK'
  <2>1. Range(b) \subseteq Header
    BY DEF Range
  <2> QED
    BY <1>1, <2>1 DEF PolySyncs
<1>2. ASSUME NEW x \in imports, PolyImports(x) PROVE TypeOK'
  <2>1. \A s \in {"ok", "failed"} : [x EXCEPT !.state = s] \in Import
    BY DEF Import
  <2>2. imports' \subseteq Import
    BY <1>2, <2>1 DEF PolyImports
  <2>3. UNCHANGED failures \/ (failures < MaxFailures /\ failures' = failures + 1)
    BY <1>2 DEF PolyImports
  <2>4. failures' \in 0..MaxFailures
    BY <2>3
  <2> QED
    BY <1>2, <2>2, <2>4 DEF PolyImports
<1>3. CASE NewBlock
  BY <1>3 DEF NewBlock
<1>4. CASE Reorganise
  BY <1>4 DEF Reorganise
<1>5. CASE Crash
  <2>1. best.height \in 0..Top
    BY DEF Header
  <2>2. dep' \in Depositing /\ chk' \in Checking
    BY <1>5 DEF Crash, DepositIdle, CheckIdle, Depositing, Checking
  <2> QED
    BY <1>5, <2>1, <2>2, EmptyQueue DEF Crash, InitHeight
<1> QED
  BY <1>1, <1>2, <1>3, <1>4, <1>5 DEF PolyStep

-----------------------------------------------------------------------------
(***************************************************************************)
(* What Poly knows.                                                        *)
(***************************************************************************)
\* Before the reorganisation there is one block at each height.
LEMMA OldFork ==
  ASSUME ~forked, NEW k, NEW h, k.fork = 0
  PROVE  Ancestor(k, h) = Main(h) /\ Main(h).fork = 0
BY DEF Ancestor, Main, ForkOf

\* Then Poly has Starcoin's header of every height below one it has.
LEMMA KnownBelow ==
  ASSUME Chain, Forks, ~forked, NEW k \in headers, NEW h \in 0..k.height
  PROVE  Main(h) \in headers
BY OldFork DEF Chain, Forks

\* The headers at the bottom are on both chains, so they do not get into the
\* queue again.
LEMMA LowIsKnown ==
  ASSUME TypeOK, Chain, NEW h \in 0..(Limit + MaxErrors)
  PROVE  Main(h) \in PolyMain(h)
<1>1. ForkAt # 0 => ~(h >= ForkAt)
  BY Constants
<1>2. \A f : ForkOf(h, f) = 0
  BY <1>1 DEF ForkOf
<1>3. best.height \in Nat /\ h <= best.height
  BY Constants DEF TypeOK, Header, Chain
<1> QED
  BY <1>2, <1>3 DEF PolyMain, Main, Ancestor

\* What follows speaks of these variables.
LEMMA SameChains ==
  ASSUME Chain, Forks, Queue, Waiting,
         UNCHANGED <<forked, headers, best, syncing, pc, height, node, batch>>
  PROVE  Chain' /\ Forks' /\ Queue' /\ Waiting'
<1>1. Chain' /\ Forks' /\ Queue'
  BY DEF Chain, Forks, Queue, Linked, Ancestor, ForkOf
<1>2. Reached' = Reached /\ \A h : Main(h)' = Main(h) /\ InSyncing(Main(h))' = InSyncing(Main(h))
  BY DEF Reached, Main, ForkOf, InSyncing
<1>3. Waiting'
  BY <1>2 DEF Waiting
<1> QED
  BY <1>1, <1>3

-----------------------------------------------------------------------------
(***************************************************************************)
(* The queue of headers.                                                   *)
(***************************************************************************)
\* A batch that Poly takes keeps what it knows closed.
LEMMA CommitKeeps ==
  ASSUME TypeOK, Chain, Forks, Queue, Waiting, CommitHeader
  PROVE  Chain' /\ Forks' /\ Queue' /\ Waiting'
<1> USE DEF CommitHeader
<1>1. Chain'
  BY DEF Chain, Linked
<1>2. Forks'
  BY DEF Forks, starcoin
<1>3. Queue'
  BY DEF Queue
<1>4. Reached' = height /\ Reached = height
  BY DEF Reached
<1>5. \A h : Main(h)' = Main(h) /\ (InSyncing(Main(h)) => InSyncing(Main(h))')
  BY DEF Main, ForkOf, InSyncing, starcoin
<1>6. Waiting'
  BY <1>4, <1>5 DEF Waiting, starcoin
<1> QED
  BY <1>1, <1>2, <1>3, <1>6

\* So does the execution of the batch.
LEMMA SyncKeeps ==
  ASSUME TypeOK, Chain, Forks, Queue, Waiting, NEW b \in syncing, PolySyncs(b)
  PROVE  Chain' /\ Forks' /\ Queue' /\ Waiting'
<1> USE DEF PolySyncs, starcoin, monitor
<1>1. Chain'
  <2>1. \A k \in headers' : \A h \in 0..k.height : Ancestor(k, h) \in headers'
    <3>1. SUFFICES ASSUME NEW k \in Range(b), NEW h \in 0..k.height
                   PROVE  Ancestor(k, h) \in headers'
      BY DEF Chain
    <3>2. PICK i \in DOMAIN b : k = b[i]
      BY DEF Range
    <3>3. Ancestor(k, h) \in headers \cup {b[j] : j \in 1..i}
      BY <3>2 DEF Chain, Linked
    <3>4. 1..i \subseteq DOMAIN b
      BY DEF TypeOK
    <3> QED
      BY <3>3, <3>4 DEF Range
  <2>2. best' \in headers' /\ best' \in Header /\ best \in Header
    BY DEF Chain, TypeOK, Range
  <2>3. ~Heavier(best, best')
    OBVIOUS
  <2>4. best'.height >= Start
    BY <2>2, <2>3, Constants DEF Heavier, Chain, Header
  <2>5. \A s \in syncing' : Linked(s)'
    BY DEF Chain, Linked
  <2> QED
    BY <2>1, <2>2, <2>4, <2>5 DEF Chain
<1>2. Forks'
  BY DEF Forks, Range
<1>3. Queue'
  BY DEF Queue
<1>4. Waiting'
  <2>1. Reached' = Reached /\ \A h : Main(h)' = Main(h)
    BY DEF Reached, Main, ForkOf
  <2>2. \A h : InSyncing(Main(h)) => InSyncing(Main(h))' \/ Main(h)' \in headers'
    BY <2>1 DEF InSyncing
  <2> QED
    BY <2>1, <2>2 DEF Waiting
<1> QED
  BY <1>1, <1>2, <1>3, <1>4

\* A step that leaves the queue alone and handles no more of the chain.
LEMMA SameQueue ==
  ASSUME TypeOK, TypeOK', Chain, Forks, Queue, Waiting,
         UNCHANGED <<forked, headers, best, syncing, batch>>,
         pc' # "confirm", height' >= height, Reached' <= Reached,
         pc' \in {"fetch", "put"} => height' + Useful < node'
  PROVE  Chain' /\ Forks' /\ Queue' /\ Waiting'
<1>1. Chain' /\ Forks'
  BY DEF Chain, Forks, Linked, Ancestor, ForkOf
<1>2. height \in Nat /\ height' \in Nat
  BY DEF TypeOK
<1>3. Queue'
  BY <1>2, Constants DEF Queue
<1>4. Reached \in Nat /\ Reached' \in Nat
  <2>1. Reached = height \/ Reached = height + 1
    BY DEF Reached
  <2>2. Reached' = height' \/ Reached' = height' + 1
    BY DEF Reached
  <2> QED
    BY ONLY <1>2, <2>1, <2>2
<1>5. \A h : Main(h)' = Main(h) /\ InSyncing(Main(h))' = InSyncing(Main(h))
  BY DEF Main, ForkOf, InSyncing
<1>6. Waiting'
  <2>1. SUFFICES ASSUME ~forked, NEW h \in 1..Reached', Main(h) \notin headers,
                        ~InSyncing(Main(h))
                 PROVE  \E i \in DOMAIN batch :
                          batch[i] = Main(h) /\ i + (Reached' - h) <= Len(batch)
    BY <1>5 DEF Waiting
  <2>2. h \in 1..Reached
    BY <1>4
  <2>3. PICK i \in DOMAIN batch :
          batch[i] = Main(h) /\ i + (Reached - h) <= Len(batch)
    BY <2>1, <2>2 DEF Waiting
  <2>4. i \in Nat /\ Len(batch) \in Nat
    <3>1. batch \in Seq(Header)
      BY DEF TypeOK
    <3> QED
      BY <3>1
  <2>5. i + (Reached' - h) <= Len(batch)
    BY <1>4, <2>2, <2>3, <2>4
  <2> QED
    BY <2>3, <2>5
<1> QED
  BY <1>1, <1>3, <1>6

\* A step that empties the queue, when nothing below its height waits there.
LEMMA Emptied ==
  ASSUME TypeOK, Chain, Forks,
         UNCHANGED <<forked, headers, best, syncing>>,
         batch' = <<>>, pc' \in {"idle", "loop"}, height' \in Nat,
         ~forked => \A h \in 1..height' : Main(h) \in headers \/ InSyncing(Main(h))
  PROVE  Chain' /\ Forks' /\ Queue' /\ Waiting'
<1>1. Chain' /\ Forks'
  BY DEF Chain, Forks, Linked, Ancestor, ForkOf
<1>2. Queue'
  BY EmptyQueue, Constants DEF Queue
<1>3. Reached' = height'
  BY DEF Reached
<1>4. \A h : Main(h)' = Main(h) /\ InSyncing(Main(h))' = InSyncing(Main(h))
  BY DEF Main, ForkOf, InSyncing
<1> QED
  BY <1>1, <1>2, <1>3, <1>4 DEF Waiting

\* Every header up to Poly's own is known.
LEMMA KnownToBest ==
  ASSUME TypeOK, Chain, Forks, ~forked, NEW h \in Nat, h <= best.height
  PROVE  Main(h) \in headers
BY KnownBelow DEF Chain, TypeOK, Header

\* The heights up to one that Poly has reached.
LEMMA UpTo ==
  ASSUME TypeOK, NEW n \in Nat, n <= best.height
  PROVE  \A h \in 1..n : h \in Nat /\ h <= best.height
<1>1. best.height \in Nat
  BY DEF TypeOK, Header
<1> QED
  BY <1>1

\* A reset goes back to before the first header that waits.
LEMMA ResetKeeps ==
  ASSUME TypeOK, TypeOK', Chain, Forks, Queue, Waiting, Reset
  PROVE  Chain' /\ Forks' /\ Queue' /\ Waiting'
<1>1. Reached = height /\ height' = height - Len(batch) /\ height \in Nat
  BY DEF Reset, InLoop, Reached, TypeOK
<1>2. ASSUME ~forked, NEW h \in 1..height'
      PROVE  Main(h) \in headers \/ InSyncing(Main(h))
  <2>1. Len(batch) \in Nat /\ height' \in Nat
    BY DEF TypeOK
  <2>2. h \in 1..Reached
    BY <1>1, <2>1
  <2>3. \A i \in DOMAIN batch : ~(i + (Reached - h) <= Len(batch))
    <3>1. DOMAIN batch = 1..Len(batch) /\ h \in Nat /\ height - h >= Len(batch)
      BY <1>1, <2>1 DEF TypeOK
    <3> QED
      BY <1>1, <2>1, <3>1
  <2> QED
    BY <1>2, <2>2, <2>3 DEF Waiting
<1>3. /\ UNCHANGED <<forked, headers, best, syncing>>
      /\ batch' = <<>> /\ pc' = "idle"
  BY DEF Reset, starcoin, poly
<1>4. height' \in Nat
  BY DEF TypeOK
<1> QED
  BY <1>2, <1>3, <1>4, Emptied

\* The common ancestor is on Poly, and so is what is below it.
LEMMA RollBackKeeps ==
  ASSUME TypeOK, TypeOK', Chain, Forks, RollBackToCommAncestor
  PROVE  Chain' /\ Forks' /\ Queue' /\ Waiting'
<1>1. SameOnPoly(height')
  BY DEF RollBackToCommAncestor
<1>2. height' <= best.height
  BY <1>1 DEF SameOnPoly, PolyMain
<1>3. height' \in Nat
  BY DEF TypeOK
<1>4. ~forked => \A h \in 1..height' : Main(h) \in headers
  BY <1>2, <1>3, UpTo, KnownToBest
<1>5. /\ UNCHANGED <<forked, headers, best, syncing>>
      /\ batch' = <<>> /\ pc' = back
  BY DEF RollBackToCommAncestor, starcoin, poly
<1>6. pc' \in {"idle", "loop"}
  BY <1>5 DEF TypeOK
<1> QED
  BY <1>3, <1>4, <1>5, <1>6, Emptied

\* A batch that has left syncing is on Poly.
LEMMA ConfirmKeeps ==
  ASSUME TypeOK, TypeOK', Chain, Forks, Queue, Waiting, HeaderConfirmed
  PROVE  Chain' /\ Forks' /\ Queue' /\ Waiting'
<1>1. Reached = height /\ height' = height
  BY DEF HeaderConfirmed, Reached
<1>2. Range(batch) \subseteq headers
  BY DEF HeaderConfirmed, Queue
<1>3. ASSUME ~forked, NEW h \in 1..height'
      PROVE  Main(h) \in headers \/ InSyncing(Main(h))
  BY <1>1, <1>2, <1>3 DEF Waiting, Range
<1>4. /\ UNCHANGED <<forked, headers, best, syncing>>
      /\ batch' = <<>> /\ pc' = back
  BY DEF HeaderConfirmed, starcoin, poly
<1>5. pc' \in {"idle", "loop"} /\ height' \in Nat
  BY <1>4 DEF TypeOK
<1> QED
  BY <1>3, <1>4, <1>5, Emptied

\* A relayer that starts again starts from where Poly is.
LEMMA CrashKeeps ==
  ASSUME TypeOK, TypeOK', Chain, Forks, Crash
  PROVE  Chain' /\ Forks' /\ Queue' /\ Waiting'
<1>1. /\ UNCHANGED <<forked, headers, best, syncing>>
      /\ batch' = <<>> /\ pc' = "idle" /\ height' = best.height
  BY DEF Crash, InitHeight, starcoin, poly
<1>2. height' \in Nat
  BY DEF TypeOK
<1>3. ~forked => \A h \in 1..height' : Main(h) \in headers
  BY <1>1, <1>2, UpTo, KnownToBest
<1> QED
  BY <1>1, <1>2, <1>3, Emptied

\* A header joins the queue unless Poly has it.
LEMMA HeaderKeeps ==
  ASSUME TypeOK, TypeOK', Chain, Forks, Queue, Waiting, HandleBlockHeader
  PROVE  Chain' /\ Forks' /\ Queue' /\ Waiting'
<1> DEFINE k == Main(height + 1)
<1>1. /\ UNCHANGED <<forked, headers, best, syncing, height, node>>
      /\ InLoop /\ pc' \in {"fetch", "idle"} /\ Reached = height
      /\ height \in Nat /\ Len(batch) \in Nat /\ Len(batch) <= 3 * HeadersPerBatch
  BY DEF HandleBlockHeader, starcoin, poly, InLoop, Reached, TypeOK
<1>2. CASE pc' = "idle"
  <2>1. UNCHANGED batch
    BY <1>2 DEF HandleBlockHeader
  <2>2. Reached' = height
    BY <1>1, <1>2 DEF Reached
  <2> QED
    BY <1>1, <1>2, <2>1, <2>2, SameQueue
<1>3. CASE pc' = "fetch"
  <2>1. Reached' = height + 1 /\ height + Useful < node
    BY <1>1, <1>3 DEF Reached, InLoop
  <2>2. \A h : Main(h)' = Main(h) /\ InSyncing(Main(h))' = InSyncing(Main(h))
    BY <1>1 DEF Main, ForkOf, InSyncing
  <2>3. Chain'
    BY <1>1 DEF Chain, Linked, Ancestor, ForkOf
  <2>4. CASE batch' = batch /\ k \in PolyMain(height + 1)
    <3>1. batch' = batch
      BY <2>4
    <3>2. height + 1 <= best.height
      BY <2>4 DEF PolyMain
    <3>3. Forks' /\ Queue'
      BY <1>1, <1>3, <2>1, <3>1 DEF Forks, Queue
    <3>4. \A h \in 1..(height + 1) : h \in Nat /\ h <= best.height
      BY <1>1, <3>2, UpTo
    <3>5. ~forked => \A h \in 1..(height + 1) : Main(h) \in headers
      BY <3>4, KnownToBest
    <3>6. Waiting'
      BY <1>1, <2>1, <2>2, <3>5 DEF Waiting
    <3> QED
      BY <2>3, <3>3, <3>6
  <2>5. CASE batch' = Append(batch, k)
    <3>1. batch' = Append(batch, k)
      BY <2>5
    <3>2. height + 1 \in 0..Top
      BY <1>1, <2>1, Constants DEF TypeOK
    <3>3. k \in Header
      BY <3>2, MainIsHeader
    <3>4. /\ DOMAIN batch = 1..Len(batch)
          /\ Len(batch') = Len(batch) + 1
          /\ DOMAIN batch' = 1..(Len(batch) + 1)
          /\ batch'[Len(batch) + 1] = k
          /\ \A i \in 1..Len(batch) : batch'[i] = batch[i]
      <4>1. batch \in Seq(Header)
        BY DEF TypeOK
      <4> QED
        BY <3>1, <3>3, <4>1, QueueRange
    <3>6. Queue'
      BY <1>1, <1>3, <2>1, <3>4, Constants DEF Queue, Limit
    <3>7. ~forked => k.fork = 0
      BY DEF Main, ForkOf
    <3>8. Forks'
      <4>1. ~forked => \A i \in DOMAIN batch' : batch'[i].fork = 0
        <5>1. SUFFICES ASSUME ~forked, NEW i \in DOMAIN batch'
                       PROVE  batch'[i].fork = 0
          OBVIOUS
        <5>2. i = Len(batch) + 1 \/ i \in 1..Len(batch)
          BY <1>1, <3>4
        <5> QED
          BY <3>4, <3>7, <5>1, <5>2 DEF Forks
      <4> QED
        BY <1>1, <4>1 DEF Forks
    <3>9. Waiting'
      <4>1. SUFFICES ASSUME ~forked, NEW h \in 1..(height + 1),
                            Main(h) \notin headers, ~InSyncing(Main(h))
                     PROVE  \E i \in DOMAIN batch' :
                              /\ batch'[i] = Main(h)
                              /\ i + ((height + 1) - h) <= Len(batch')
        BY <1>1, <2>1, <2>2 DEF Waiting
      <4>2. CASE h = height + 1
        <5>1. Len(batch) + 1 \in DOMAIN batch'
          BY <1>1, <3>4
        <5>2. (Len(batch) + 1) + ((height + 1) - h) <= Len(batch')
          BY <1>1, <3>4, <4>2
        <5> QED
          BY <3>4, <4>2, <5>1, <5>2
      <4>3. CASE h # height + 1
        <5>1. h \in 1..Reached
          BY <1>1, <4>3
        <5>2. PICK i \in DOMAIN batch :
                batch[i] = Main(h) /\ i + (Reached - h) <= Len(batch)
          BY <4>1, <5>1 DEF Waiting
        <5>3. i \in DOMAIN batch' /\ batch'[i] = Main(h)
          BY <1>1, <3>4, <5>2
        <5>4. i + ((height + 1) - h) <= Len(batch')
          BY <1>1, <3>4, <5>2
        <5> QED
          BY <5>3, <5>4
      <4> QED
        BY <4>2, <4>3
    <3> QED
      BY <2>3, <3>6, <3>8, <3>9
  <2> QED
    BY <1>3, <2>4, <2>5 DEF HandleBlockHeader
<1> QED
  BY <1>1, <1>2, <1>3

\* MonitorChain keeps the chains and the queue.
LEMMA MonitorKeeps ==
  ASSUME TypeOK, TypeOK', Chain, Forks, Queue, Waiting, MonitorStep
  PROVE  Chain' /\ Forks' /\ Queue' /\ Waiting'
<1> USE DEF starcoin, poly, Reached, TypeOK
<1>1. CASE ReadNodeHeight
  <2>1. /\ UNCHANGED <<forked, headers, best, syncing, batch>>
        /\ pc' = "loop" /\ height' = height /\ pc = "idle"
    BY <1>1 DEF ReadNodeHeight
  <2>2. Reached' <= Reached /\ height' >= height
    BY <2>1
  <2> QED
    BY <2>1, <2>2, SameQueue
<1>2. ASSUME FetchLockDepositEvents \/ \E e \in Event : PutStarcoinTxRetry(e)
      PROVE  Chain' /\ Forks' /\ Queue' /\ Waiting'
  <2>1. /\ UNCHANGED <<forked, headers, best, syncing, batch>>
        /\ pc' \in {"put", "idle"} /\ height' = height /\ node' = node
        /\ pc \in {"fetch", "put"}
    BY <1>2 DEF FetchLockDepositEvents, PutStarcoinTxRetry
  <2>2. Reached' <= Reached /\ height' >= height
    BY <2>1
  <2>3. height + Useful < node
    BY <2>1 DEF Queue
  <2> QED
    BY <2>1, <2>2, <2>3, SameQueue
<1>3. CASE BlockHandled
  <2>1. /\ UNCHANGED <<forked, headers, best, syncing, batch>>
        /\ pc' \in {"commit", "loop"} /\ height' = height + 1 /\ pc = "put"
    BY <1>3 DEF BlockHandled
  <2>2. Reached' <= Reached /\ height' >= height
    BY <2>1
  <2> QED
    BY <2>1, <2>2, SameQueue
<1>4. ASSUME LoopEnds \/ CommitHeaderFails
      PROVE  Chain' /\ Forks' /\ Queue' /\ Waiting'
  <2>1. /\ UNCHANGED <<forked, headers, best, syncing, batch>>
        /\ pc' \in {"commit", "idle"} /\ height' = height
        /\ pc \in {"loop", "commit"}
    BY <1>4 DEF LoopEnds, CommitHeaderFails
  <2>2. Reached' <= Reached /\ height' >= height
    BY <2>1
  <2> QED
    BY <2>1, <2>2, SameQueue
<1> QED
  BY <1>1, <1>2, <1>3, <1>4, ResetKeeps, HeaderKeeps, CommitKeeps,
     RollBackKeeps, ConfirmKeeps DEF MonitorStep

\* A rollback goes down to where both chains are the same, and one height more
\* for every failed call.
LEMMA RollBackDeep ==
  ASSUME TypeOK, TypeOK', Chain, Deep, RollBackToCommAncestor
  PROVE  Deep'
<1> DEFINE B == Limit + MaxErrors
           h == height'
<1>1. /\ h \in 0..height /\ batch' = <<>>
      /\ errors' = errors + Cardinality(Missed(h))
  BY DEF RollBackToCommAncestor
<1>2. /\ height \in Nat /\ h \in Nat /\ errors \in Nat /\ errors' \in Nat
      /\ MaxErrors \in Nat /\ B \in Nat /\ B >= MaxErrors
      /\ Cardinality(Missed(h)) \in Nat /\ IsFiniteSet(Missed(h))
  BY <1>1, MissedCount, Constants DEF TypeOK
<1>3. height + errors >= MaxErrors
  <2>1. Len(batch) \in Nat
    BY DEF TypeOK
  <2> QED
    BY <1>2, <2>1 DEF Deep
<1>4. PICK m \in Nat : /\ m <= height /\ m <= B
                       /\ m = height \/ m = B
  <2>1. CASE height <= B
    BY <1>2, <2>1
  <2>2. CASE ~(height <= B)
    BY <1>2, <2>2
  <2> QED
    BY <2>1, <2>2
<1>5. CASE h >= m
  BY <1>1, <1>2, <1>3, <1>4, <1>5, EmptyQueue DEF Deep
<1>6. CASE h < m
  <2>1. (h + 1)..m \subseteq Missed(h)
    <3>1. SUFFICES ASSUME NEW k \in (h + 1)..m
                   PROVE  k \in (h + 1)..height /\ SameOnPoly(k)
      BY DEF Missed
    <3> HIDE DEF h, B
    <3>2. k \in Nat /\ k >= h + 1 /\ k <= m
      BY <1>2, <1>4, <3>1
    <3>3. k \in (h + 1)..height /\ k \in 0..B
      BY <1>2, <1>4, <3>2
    <3> QED
      BY <3>3, LowIsKnown DEF SameOnPoly, B
  <2>2. Cardinality((h + 1)..m) = m - h
    BY <1>2, <1>4, <1>6, FS_Interval
  <2>3. Cardinality((h + 1)..m) <= Cardinality(Missed(h))
    BY <1>2, <2>1, FS_Subset
  <2>4. h + errors' >= m + errors
    BY <1>1, <1>2, <1>4, <2>2, <2>3
  <2> QED
    BY <1>1, <1>2, <1>3, <1>4, <2>4, EmptyQueue DEF Deep
<1> QED
  BY <1>2, <1>4, <1>5, <1>6

\* Every step keeps the queue shorter than the chain below it.
LEMMA DeepKept ==
  ASSUME TypeOK, TypeOK', Chain, Queue, Deep, [Next]_vars
  PROVE  Deep'
<1>1. /\ Len(batch) \in Nat /\ height \in Nat /\ errors \in Nat
      /\ height' \in Nat /\ errors' \in Nat /\ MaxErrors \in Nat
  BY Constants DEF TypeOK
<1> USE DEF starcoin, poly, tables, monitor
<1>2. ASSUME batch' = batch, height' >= height, errors' >= errors
      PROVE  Deep'
  BY <1>1, <1>2 DEF Deep
<1>3. ASSUME UNCHANGED errors \/ Error PROVE errors' >= errors
  BY <1>1, <1>3 DEF Error
<1>4. CASE Reset
  BY <1>1, <1>4, EmptyQueue DEF Reset, Deep
<1>5. CASE HandleBlockHeader
  <2>1. height' = height /\ height + 1 \in 0..Top
    BY <1>5, Constants DEF HandleBlockHeader, InLoop, TypeOK
  <2>4. errors' >= errors /\ height' >= height
    <3>1. UNCHANGED errors \/ Error
      BY <1>5 DEF HandleBlockHeader
    <3> QED
      BY <1>1, <1>3, <2>1, <3>1
  <2>2. CASE batch' = batch
    BY <1>2, <2>2, <2>4
  <2>3. CASE batch' = Append(batch, Main(height + 1))
    <3>1. Len(batch') = Len(batch) + 1
      BY <2>1, <2>3, MainIsHeader, QueueRange DEF TypeOK
    <3>2. CASE Error
      BY <1>1, <2>1, <3>1, <3>2 DEF Error, Deep
    <3>3. CASE UNCHANGED errors /\ Main(height + 1) \notin PolyMain(height + 1)
      <4>1. ~(height + 1 \in 0..(Limit + MaxErrors))
        BY <3>3, LowIsKnown
      <4>2. height >= Limit + MaxErrors
        BY <1>1, <4>1, Constants
      <4>3. Len(batch) + 1 <= Limit
        BY <1>1, <1>5, Constants DEF HandleBlockHeader, Limit
      <4> QED
        BY <1>1, <2>1, <3>1, <3>3, <4>2, <4>3, Constants DEF Deep
    <3>4. CASE batch' = batch
      BY <1>2, <2>4, <3>4
    <3> QED
      BY <1>5, <3>2, <3>3, <3>4 DEF HandleBlockHeader
  <2> QED
    BY <1>5, <2>2, <2>3 DEF HandleBlockHeader
<1>6. CASE RollBackToCommAncestor
  BY <1>6, RollBackDeep
<1>7. CASE HeaderConfirmed
  BY <1>1, <1>7, EmptyQueue DEF HeaderConfirmed, Deep
<1>8. CASE Crash
  <2>1. height' >= MaxErrors /\ batch' = <<>>
    <3>1. height' = best.height /\ batch' = <<>>
      BY <1>8 DEF Crash, InitHeight
    <3>2. best.height \in Nat /\ best.height >= Start
      BY Constants DEF Chain, TypeOK, Header
    <3> QED
      BY <1>1, <3>1, <3>2, Constants
  <2>2. Len(batch') = 0 /\ height' >= MaxErrors
    BY <2>1, EmptyQueue
  <2>3. height' \in Nat /\ errors' \in Nat /\ MaxErrors \in Nat
    BY <1>1
  <2>4. ASSUME NEW n \in Nat, NEW k \in Nat, NEW x \in Nat, k >= x
        PROVE  0 + x <= k + n
    BY <2>4
  <2>5. 0 + MaxErrors <= height' + errors'
    BY <2>2, <2>3, <2>4
  <2> QED
    BY <2>2, <2>5 DEF Deep
<1>9. CASE \/ ReadNodeHeight \/ FetchLockDepositEvents \/ BlockHandled \/ LoopEnds
           \/ CommitHeader \/ CommitHeaderFails
           \/ \E e \in Event : PutStarcoinTxRetry(e)
  <2>1. batch' = batch /\ height' >= height /\ (UNCHANGED errors \/ Error)
    BY <1>1, <1>9 DEF ReadNodeHeight, FetchLockDepositEvents, BlockHandled, LoopEnds,
                      CommitHeader, CommitHeaderFails, PutStarcoinTxRetry
  <2> QED
    BY <1>2, <1>3, <2>1
<1>10. CASE \/ DepositStep \/ CheckStep \/ PolyStep \/ NewBlock \/ Reorganise
            \/ UNCHANGED vars
  <2>1. batch' = batch /\ height' = height /\ (UNCHANGED errors \/ Error)
    BY <1>10 DEF DepositStep, GetAllStarcoinTxRetry, SkipDeposit,
                 GetTransactionProofFails, DeleteDone, CommitProof,
                 PutStarcoinTxCheck, DeleteStarcoinTxRetry, DepositsHandled,
                 CheckStep, GetAllStarcoinTxCheck, GetSmartContractEvent,
                 PutFailedBack, DeleteStarcoinTxCheck, ChecksHandled,
                 PolyStep, PolySyncs, PolyImports, NewBlock, Reorganise, vars
  <2> QED
    BY <1>1, <1>2, <1>3, <2>1
<1> QED
  BY <1>4, <1>5, <1>6, <1>7, <1>8, <1>9, <1>10 DEF Next, MonitorStep

\* A reorganisation starts the new fork.
LEMMA ReorganiseKeeps ==
  ASSUME TypeOK, Chain, Forks, Queue, Waiting, Reorganise
  PROVE  Chain' /\ Forks' /\ Queue' /\ Waiting'
<1> USE DEF Reorganise, poly, monitor
<1>1. Chain' /\ Queue'
  BY DEF Chain, Queue, Linked, Ancestor, ForkOf
<1>2. forked'
  OBVIOUS
<1> QED
  BY <1>1, <1>2 DEF Forks, Waiting

\* Every step keeps the chains and the queue.
LEMMA ChainsAndQueue ==
  ASSUME TypeOK, TypeOK', Chain, Forks, Queue, Waiting, [Next]_vars
  PROVE  Chain' /\ Forks' /\ Queue' /\ Waiting'
<1> DEFINE Same == UNCHANGED <<forked, headers, best, syncing, pc, height, node, batch>>
<1>1. ASSUME DepositStep PROVE Same
  BY <1>1 DEF DepositStep, GetAllStarcoinTxRetry, SkipDeposit,
     GetTransactionProofFails, DeleteDone, CommitProof, PutStarcoinTxCheck,
     DeleteStarcoinTxRetry, DepositsHandled, starcoin, poly, monitor
<1>2. ASSUME CheckStep PROVE Same
  BY <1>2 DEF CheckStep, GetAllStarcoinTxCheck, GetSmartContractEvent,
     PutFailedBack, DeleteStarcoinTxCheck, ChecksHandled, starcoin, poly, monitor
<1>3. ASSUME NEW x \in imports, PolyImports(x) PROVE Same
  BY <1>3 DEF PolyImports, starcoin, monitor
<1>4. ASSUME NewBlock \/ UNCHANGED vars PROVE Same
  BY <1>4 DEF NewBlock, vars, starcoin, poly, monitor
<1> QED
  BY <1>1, <1>2, <1>3, <1>4, SameChains, SyncKeeps, MonitorKeeps, CrashKeeps,
     ReorganiseKeeps DEF Next, PolyStep

-----------------------------------------------------------------------------
(***************************************************************************)
(* The events.                                                             *)
(***************************************************************************)
\* What has been recorded stays so: the retry table loses only the events of
\* transactions that are on Poly.
LEMMA RecordedStays ==
  ASSUME TypeOK, Items, [Next]_vars
  PROVE  Items' /\ \A e \in Event : Recorded(e) => Recorded(e)'
<1> USE DEF Items, Recorded, starcoin, poly, tables, monitor
<1>1. CASE MonitorStep
  <2>1. retry \subseteq retry' /\ UNCHANGED <<imports, dep>>
    BY <1>1 DEF MonitorStep, ReadNodeHeight, Reset, HandleBlockHeader,
       FetchLockDepositEvents, PutStarcoinTxRetry, BlockHandled, LoopEnds,
       CommitHeader, CommitHeaderFails, RollBackToCommAncestor, HeaderConfirmed
  <2> QED
    BY <2>1
<1>2. CASE CheckStep
  <2>1. retry \subseteq retry' /\ UNCHANGED <<imports, dep>>
    BY <1>2 DEF CheckStep, GetAllStarcoinTxCheck, GetSmartContractEvent,
       PutFailedBack, DeleteStarcoinTxCheck, ChecksHandled
  <2> QED
    BY <2>1
<1>3. CASE DepositStep
  <2>1. ASSUME \/ GetAllStarcoinTxRetry \/ DepositsHandled
               \/ \E e \in Event : SkipDeposit(e) \/ GetTransactionProofFails(e)
        PROVE  UNCHANGED <<imports, retry>> /\ dep'.item \subseteq dep.item
    BY <2>1 DEF GetAllStarcoinTxRetry, DepositsHandled, SkipDeposit,
       GetTransactionProofFails, DepositIdle, TypeOK, Depositing
  <2>2. ASSUME NEW e \in Event, DeleteDone(e)
        PROVE  /\ dep'.item = dep.item /\ UNCHANGED imports
               /\ retry' = retry \ {e} /\ \E x \in imports : x.event = e
    BY <2>2 DEF DeleteDone, Imported, TypeOK, Depositing
  <2>3. ASSUME NEW e \in Event, CommitProof(e)
        PROVE  Items' /\ \A f \in Event : Recorded(f) => Recorded(f)'
    <3>1. PICK n \in 1..MaxImports :
            /\ imports' = imports \cup {[event |-> e, n |-> n, state |-> "pending"]}
            /\ dep' = [dep EXCEPT !.stage = "check", !.todo = dep.todo \ {e},
                                  !.item = {[event |-> e, n |-> n]}]
      BY <2>3 DEF CommitProof
    <3>2. UNCHANGED retry /\ imports \subseteq imports'
      BY <2>3, <3>1 DEF CommitProof
    <3>3. dep'.item = {[event |-> e, n |-> n]}
      BY <3>1 DEF TypeOK, Depositing
    <3>4. [event |-> e, n |-> n, state |-> "pending"] \in imports'
      BY <3>1
    <3>5. Items'
      BY <3>3, <3>4
    <3> QED
      BY <3>2, <3>5
  <2>4. ASSUME NEW c \in dep.item, PutStarcoinTxCheck(c)
        PROVE  UNCHANGED <<imports, retry>> /\ dep'.item = dep.item
    BY <2>4 DEF PutStarcoinTxCheck, TypeOK, Depositing
  <2>5. ASSUME NEW c \in dep.item, DeleteStarcoinTxRetry(c)
        PROVE  /\ dep'.item = {} /\ UNCHANGED imports
               /\ retry \ {c.event} \subseteq retry'
               /\ \E x \in imports : x.event = c.event
    BY <2>5 DEF DeleteStarcoinTxRetry, TypeOK, Depositing
  <2> QED
    BY <1>3, <2>1, <2>2, <2>3, <2>4, <2>5 DEF DepositStep
<1>4. ASSUME NEW x \in imports, PolyImports(x)
      PROVE  Items' /\ \A e \in Event : Recorded(e) => Recorded(e)'
  <2>1. UNCHANGED <<retry, dep>>
    BY <1>4 DEF PolyImports
  <2>2. PICK s \in {"ok", "failed"} :
          imports' = (imports \ {x}) \cup {[x EXCEPT !.state = s]}
    BY <1>4 DEF PolyImports
  <2>3. [x EXCEPT !.state = s] \in imports' /\ [x EXCEPT !.state = s].event = x.event
    BY <2>2 DEF TypeOK, Import
  <2>4. \A y \in imports : \E z \in imports' : z.event = y.event
    BY <2>2, <2>3
  <2> QED
    BY <2>1, <2>4
<1>5. ASSUME \/ \E b \in syncing : PolySyncs(b)
             \/ NewBlock \/ Reorganise \/ Crash \/ UNCHANGED vars
      PROVE  UNCHANGED <<retry, imports>> /\ dep'.item \subseteq dep.item
  BY <1>5 DEF PolySyncs, NewBlock, Reorganise, Crash, DepositIdle, vars
<1> QED
  BY <1>1, <1>2, <1>3, <1>4, <1>5 DEF Next, PolyStep

\* MonitorChain records the events of a block before it sends the header.
LEMMA MonitorRecords ==
  ASSUME TypeOK, Queue, Recording, Items, MonitorStep
  PROVE  Recording'
<1> USE DEF starcoin, poly, tables, monitor
<1>1. \A e \in Event : Recorded(e) => Recorded(e)'
  BY RecordedStays DEF Next
<1>2. /\ UNCHANGED <<forked, headers>>
      /\ \A h : Main(h)' = Main(h)
      /\ \A e \in Event : Canonical(e)' = Canonical(e)
  <2>1. UNCHANGED <<forked, headers>>
    BY DEF MonitorStep, ReadNodeHeight, Reset, HandleBlockHeader,
       FetchLockDepositEvents, PutStarcoinTxRetry, BlockHandled, LoopEnds,
       CommitHeader, CommitHeaderFails, RollBackToCommAncestor, HeaderConfirmed
  <2> QED
    BY <2>1 DEF Main, ForkOf, Canonical
<1>3. ASSUME UNCHANGED <<syncing, batch>>,
             \A e \in Event : Canonical(e) /\ InHandling(e) => Recorded(e)' \/ InHandling(e)'
      PROVE  Recording'
  BY <1>1, <1>2, <1>3 DEF Recording, InSyncing
<1>4. CASE ReadNodeHeight
  <2>1. /\ pc = "idle" /\ pc' = "loop" /\ node' = tip /\ height' = height
        /\ tip > height + Useful
    BY <1>4 DEF ReadNodeHeight
  <2>2. InLoop'
    BY <2>1, Constants DEF InLoop, TypeOK
  <2>3. \A e \in Event : InHandling(e) => InHandling(e)'
    BY <2>1, <2>2 DEF InHandling
  <2> QED
    BY <1>3, <1>4, <2>3 DEF ReadNodeHeight
<1>5. ASSUME Reset \/ RollBackToCommAncestor \/ HeaderConfirmed
      PROVE  Recording'
  <2>1. UNCHANGED syncing /\ batch' = <<>>
    BY <1>5 DEF Reset, RollBackToCommAncestor, HeaderConfirmed
  <2> QED
    BY <1>1, <1>2, <2>1, EmptyQueue DEF Recording, InSyncing
<1>6. CASE HandleBlockHeader
  <2>1. /\ pc = "loop" /\ pc' \in {"fetch", "idle"}
        /\ UNCHANGED <<syncing, height>>
    BY <1>6 DEF HandleBlockHeader, InLoop
  <2>2. \A e \in Event : InHandling(e) => InHandling(e)'
    BY <2>1 DEF InHandling
  <2>3. batch' = batch \/ (batch' = Append(batch, Main(height + 1)) /\ pc' = "fetch")
    BY <1>6 DEF HandleBlockHeader
  <2>4. CASE batch' = batch
    BY <1>3, <2>1, <2>2, <2>4
  <2>5. CASE batch' = Append(batch, Main(height + 1)) /\ pc' = "fetch"
    <3>1. height + 1 \in 0..Top
      BY <1>6, Constants DEF HandleBlockHeader, InLoop, TypeOK
    <3>2. /\ Range(batch') = Range(batch) \cup {Main(height + 1)}
          /\ Main(height + 1).height = height + 1
      BY <2>5, <3>1, MainIsHeader, QueueRange DEF TypeOK
    <3>3. \A e \in Event : BlockOf[e] = Main(height + 1) => InHandling(e)'
      BY <2>1, <2>5, <3>2 DEF InHandling
    <3> QED
      BY <1>1, <1>2, <2>1, <2>2, <3>2, <3>3 DEF Recording, InSyncing
  <2> QED
    BY <2>3, <2>4, <2>5
<1>7. CASE FetchLockDepositEvents
  <2>1. /\ pc = "fetch" /\ UNCHANGED <<syncing, batch, height>>
        /\ \/ pc' = "idle"
           \/ /\ pc' = "put"
              /\ todo' = {e \in Event : BlockOf[e] = Main(height + 1)}
    BY <1>7 DEF FetchLockDepositEvents
  <2>2. \A e \in Event : Canonical(e) /\ InHandling(e) => BlockOf[e] = Main(height + 1)
    BY DEF Canonical, InHandling
  <2>3. \A e \in Event : Canonical(e) /\ InHandling(e) => InHandling(e)'
    BY <2>1, <2>2 DEF InHandling
  <2> QED
    BY <1>3, <2>1, <2>3
<1>8. ASSUME NEW f \in Event, PutStarcoinTxRetry(f)
      PROVE  Recording'
  <2>1. /\ pc = "put" /\ UNCHANGED <<syncing, batch, height>>
        /\ \/ pc' = "idle"
           \/ /\ pc' = "put" /\ todo' = todo \ {f} /\ f \in retry'
    BY <1>8 DEF PutStarcoinTxRetry
  <2>2. \A e \in Event : InHandling(e) => Recorded(e)' \/ InHandling(e)'
    BY <2>1 DEF InHandling, Recorded
  <2> QED
    BY <1>3, <2>1, <2>2
<1>9. ASSUME BlockHandled \/ LoopEnds \/ CommitHeaderFails
      PROVE  Recording'
  <2>1. UNCHANGED <<syncing, batch>>
    BY <1>9 DEF BlockHandled, LoopEnds, CommitHeaderFails
  <2>2. (pc = "put" /\ todo = {}) \/ (pc = "loop" /\ ~InLoop) \/ pc = "commit"
    BY <1>9 DEF BlockHandled, LoopEnds, CommitHeaderFails
  <2>3. \A e \in Event : ~InHandling(e)
    BY <2>2 DEF InHandling
  <2> QED
    BY <1>3, <2>1, <2>3
<1>10. CASE CommitHeader
  <2>1. pc = "commit" /\ batch' = batch /\ syncing' = syncing \cup {batch}
    BY <1>10 DEF CommitHeader
  <2>2. \A e \in Event : ~InHandling(e)
    BY <2>1 DEF InHandling
  <2>3. \A k : InSyncing(k)' => InSyncing(k) \/ k \in Range(batch)
    BY <2>1 DEF InSyncing
  <2> QED
    BY <1>1, <1>2, <2>1, <2>2, <2>3 DEF Recording
<1> QED
  BY <1>4, <1>5, <1>6, <1>7, <1>8, <1>9, <1>10 DEF MonitorStep

\* The other steps do not send headers, and a reorganisation brings blocks
\* nobody has seen.
LEMMA EventsRecorded ==
  ASSUME TypeOK, Forks, Queue, Recording, Items, [Next]_vars
  PROVE  Recording'
<1> USE DEF starcoin, poly, monitor
<1>1. \A e \in Event : Recorded(e) => Recorded(e)'
  BY RecordedStays
<1>2. ASSUME UNCHANGED <<forked, headers, syncing, batch, pc, height, node, todo>>
      PROVE  Recording'
  BY <1>1, <1>2 DEF Recording, Canonical, Main, ForkOf, InSyncing, InHandling, InLoop
<1>3. ASSUME \/ DepositStep \/ CheckStep \/ NewBlock \/ UNCHANGED vars
             \/ \E x \in imports : PolyImports(x)
      PROVE  UNCHANGED <<forked, headers, syncing, batch, pc, height, node, todo>>
  BY <1>3 DEF DepositStep, GetAllStarcoinTxRetry, SkipDeposit,
     GetTransactionProofFails, DeleteDone, CommitProof, PutStarcoinTxCheck,
     DeleteStarcoinTxRetry, DepositsHandled, CheckStep, GetAllStarcoinTxCheck,
     GetSmartContractEvent, PutFailedBack, DeleteStarcoinTxCheck, ChecksHandled,
     NewBlock, vars, PolyImports
<1>4. ASSUME NEW b \in syncing, PolySyncs(b)
      PROVE  Recording'
  <2>1. /\ UNCHANGED <<forked, batch, pc, height, node, todo>>
        /\ headers' = headers \cup Range(b) /\ syncing' = syncing \ {b}
    BY <1>4 DEF PolySyncs
  <2>2. \A e \in Event : /\ Canonical(e)' = Canonical(e)
                         /\ InHandling(e)' = InHandling(e)
    BY <2>1 DEF Canonical, Main, ForkOf, InHandling, InLoop
  <2>3. \A k : /\ InSyncing(k)' => InSyncing(k)
               /\ k \in headers' => k \in headers \/ InSyncing(k)
    BY <2>1 DEF InSyncing
  <2> QED
    BY <1>1, <2>1, <2>2, <2>3 DEF Recording
<1>5. CASE Reorganise
  <2>1. /\ ~forked /\ forked'
        /\ UNCHANGED <<headers, syncing, batch, pc, height, node, todo>>
    BY <1>5 DEF Reorganise
  <2>2. \A e \in Event : /\ InHandling(e)' = InHandling(e)
                         /\ InSyncing(BlockOf[e])' = InSyncing(BlockOf[e])
    BY <2>1 DEF InHandling, InLoop, InSyncing
  <2>3. ASSUME NEW e \in Event, Canonical(e)', ~Canonical(e)
        PROVE  BlockOf[e].fork = 1
    BY <2>1, <2>3 DEF Canonical, Main, ForkOf
  <2>4. ASSUME NEW e \in Event, BlockOf[e].fork = 1
        PROVE  /\ BlockOf[e] \notin headers /\ ~InSyncing(BlockOf[e])
               /\ BlockOf[e] \notin Range(batch)
    BY <2>1, <2>4 DEF Forks, InSyncing, Range
  <2> QED
    BY <1>1, <2>1, <2>2, <2>3, <2>4 DEF Recording
<1>6. CASE Crash
  <2>1. UNCHANGED <<forked, headers, syncing>> /\ batch' = <<>>
    BY <1>6 DEF Crash
  <2>2. \A e \in Event : /\ Canonical(e)' = Canonical(e)
                         /\ InSyncing(BlockOf[e])' = InSyncing(BlockOf[e])
    BY <2>1 DEF Canonical, Main, ForkOf, InSyncing
  <2> QED
    BY <1>1, <2>1, <2>2, EmptyQueue DEF Recording
<1> QED
  BY <1>2, <1>3, <1>4, <1>5, <1>6, MonitorRecords DEF Next, PolyStep

-----------------------------------------------------------------------------
(***************************************************************************)
(* The invariant.                                                          *)
(***************************************************************************)
\* The relayer starts in the invariant.
LEMMA InitIndInv == Init => IndInv
<1> SUFFICES ASSUME Init PROVE IndInv
  OBVIOUS
<1> USE Constants, EmptyQueue DEF Init
<1>1. TypeOK
  <2>1. headers \subseteq Header /\ best \in Header
    BY DEF Header
  <2>2. dep \in Depositing /\ chk \in Checking
    BY DEF Depositing, Checking
  <2>3. /\ tip \in 0..Top /\ node \in 0..Top /\ height \in 0..Top
        /\ failures \in 0..MaxFailures
        /\ errors \in 0..MaxErrors /\ crashes \in 0..MaxCrashes
    OBVIOUS
  <2>4. /\ forked \in BOOLEAN /\ syncing \in SUBSET Seq(Header)
        /\ imports \subseteq Import /\ retry \subseteq Event
        /\ check \subseteq Check /\ todo \subseteq Event
        /\ batch \in Seq(Header)
    OBVIOUS
  <2>5. /\ pc \in {"idle", "loop", "fetch", "put", "commit", "confirm"}
        /\ back \in {"idle", "loop"}
    OBVIOUS
  <2> QED
    BY ONLY <2>1, <2>2, <2>3, <2>4, <2>5 DEF TypeOK
<1>2. Chain
  BY DEF Chain, Ancestor, ForkOf
<1>3. Forks /\ Queue /\ Deep
  BY DEF Forks, Queue, Deep
<1>4. Waiting
  <2>1. Reached = Start
    BY DEF Reached
  <2>2. \A h \in 1..Start : Main(h) = [height |-> h, fork |-> 0]
    BY DEF Main, ForkOf
  <2> QED
    BY <2>1, <2>2 DEF Waiting
<1>5. Recording
  BY DEF Recording, InSyncing
<1>6. Items
  BY DEF Items
<1> QED
  BY <1>1, <1>2, <1>3, <1>4, <1>5, <1>6 DEF IndInv

\* Every step keeps the types.
LEMMA TypesKept ==
  ASSUME TypeOK, Chain, Queue, Deep, [Next]_vars
  PROVE  TypeOK'
<1>1. ASSUME UNCHANGED vars PROVE TypeOK'
  BY <1>1 DEF TypeOK, vars, starcoin, poly, tables, monitor
<1> QED
  BY <1>1, MonitorTypes, DepositTypes, CheckTypes, WorldTypes DEF Next

\* In every reachable state the queue and the chains fit, and the events of
\* the headers that were sent are recorded.
THEOREM LockInvariance == Spec => []IndInv
<1>1. Init => IndInv
  BY InitIndInv
<1>2. IndInv /\ [Next]_vars => IndInv'
  <2> SUFFICES ASSUME IndInv, [Next]_vars PROVE IndInv'
    OBVIOUS
  <2>1. TypeOK'
    BY TypesKept DEF IndInv
  <2>2. Chain' /\ Forks' /\ Queue' /\ Waiting'
    BY <2>1, ChainsAndQueue DEF IndInv
  <2>3. Recording'
    BY EventsRecorded DEF IndInv
  <2>4. Items'
    BY RecordedStays DEF IndInv
  <2>5. Deep'
    BY <2>1, DeepKept DEF IndInv
  <2> QED
    BY <2>1, <2>2, <2>3, <2>4, <2>5 DEF IndInv
<1> QED
  BY <1>1, <1>2, PTL DEF Spec

\* The variables keep their types: MonitorChain's height stays on the chain,
\* and its resets do not underflow.
THEOREM LockTypes == Spec => []TypeOK
<1>1. IndInv => TypeOK
  BY DEF IndInv
<1> QED
  BY <1>1, LockInvariance, PTL

\* MonitorChain and MonitorDeposit never lose a lock event whose block Poly
\* knows.
THEOREM EventsKept == Spec => []NoEventSkipped
<1>1. IndInv => NoEventSkipped
  BY DEF IndInv, Recording, Recorded, Canonical, OnMain, NoEventSkipped
<1> QED
  BY <1>1, LockInvariance, PTL

\* MonitorChain never loses a header: header4sync, its resets and restarts
\* leave no gap in what Poly is sent.
THEOREM HeadersKept == Spec => []NoHeaderSkipped
<1>1. IndInv => NoHeaderSkipped
  <2> SUFFICES ASSUME IndInv, ~forked, NEW h \in 1..height
               PROVE  \/ Main(h) \in headers \cup Range(batch)
                      \/ \E b \in syncing : Main(h) \in Range(b)
    BY DEF NoHeaderSkipped
  <2>1. h \in 1..Reached
    BY DEF Reached, IndInv, TypeOK
  <2> QED
    BY <2>1 DEF IndInv, Waiting, InSyncing, Range
<1> QED
  BY <1>1, LockInvariance, PTL
=============================================================================
