------------------------- MODULE LockDeliveryProofs -------------------------
(***************************************************************************)
(* The lock relay implements LockDelivery, for all values of the           *)
(* constants: the invariant of LockRelayProofs, with what the goroutines   *)
(* hold in their hands traced to Starcoin's blocks and to the retry table. *)
(***************************************************************************)
EXTENDS LockRelayProofs

\* Every header and event on its way is of a block that Starcoin has produced.
Traced ==
  /\ node <= tip
  /\ headers \subseteq Produced /\ Range(batch) \subseteq Produced
  /\ \A b \in syncing : Range(b) \subseteq Produced
  /\ \A e \in todo : BlockOf[e] \in Produced

\* What MonitorDeposit goes through is recorded, what CheckDeposit puts back
\* was submitted.
Listed ==
  /\ \A e \in dep.todo : Recorded(e)
  /\ \A c \in chk.item : Submitted(c.event)

\* The events, as LockDelivery sees them.
Recorded_  == {e \in Event : Recorded(e)}
Submitted_ == {e \in Event : Submitted(e)}
Imported_  == {e \in Event : Imported(e)}

-----------------------------------------------------------------------------
(***************************************************************************)
(* The invariant.                                                          *)
(***************************************************************************)
\* A block of the main chain up to the tip is produced.
LEMMA MainIsProduced ==
  ASSUME TypeOK, NEW h \in 0..tip
  PROVE  Main(h) \in Produced
<1>1. h \in 0..Top
  BY Constants DEF TypeOK
<1>2. Main(h) \in Header /\ Main(h).height = h
  BY <1>1, MainIsHeader
<1>3. Main(h).fork = 0 \/ forked
  BY DEF Main, ForkOf
<1> QED
  BY <1>2, <1>3 DEF Produced

\* Starcoin does what it does by itself.
LEMMA StarcoinAlone ==
  ASSUME MonitorStep \/ DepositStep \/ CheckStep \/ PolyStep \/ Crash
           \/ UNCHANGED vars
  PROVE  UNCHANGED <<tip, forked>>
<1> USE DEF starcoin
<1>1. CASE MonitorStep
  BY <1>1 DEF MonitorStep, ReadNodeHeight, Reset, HandleBlockHeader,
     FetchLockDepositEvents, PutStarcoinTxRetry, BlockHandled, LoopEnds,
     CommitHeader, CommitHeaderFails, RollBackToCommAncestor, HeaderConfirmed
<1>2. CASE DepositStep
  BY <1>2 DEF DepositStep, GetAllStarcoinTxRetry, SkipDeposit,
     GetTransactionProofFails, DeleteDone, CommitProof, PutStarcoinTxCheck,
     DeleteStarcoinTxRetry, DepositsHandled
<1>3. CASE CheckStep
  BY <1>3 DEF CheckStep, GetAllStarcoinTxCheck, GetSmartContractEvent,
     PutFailedBack, DeleteStarcoinTxCheck, ChecksHandled
<1>4. CASE PolyStep
  BY <1>4 DEF PolyStep, PolySyncs, PolyImports
<1>5. CASE Crash \/ UNCHANGED vars
  BY <1>5 DEF Crash, vars
<1> QED
  BY <1>1, <1>2, <1>3, <1>4, <1>5

\* What was produced stays so.
LEMMA ProducedStays ==
  ASSUME TypeOK, [Next]_vars
  PROVE  tip <= tip' /\ tip' \in Nat /\ Produced \subseteq Produced'
<1>1. tip \in Nat
  BY DEF TypeOK
<1>2. /\ tip' = tip \/ tip' = tip + 1
      /\ forked => forked'
  BY StarcoinAlone DEF Next, NewBlock, Reorganise
<1> QED
  BY <1>1, <1>2 DEF Produced, Header

\* The ranges of a queue with one more header, and of none.
LEMMA ProducedQueue ==
  ASSUME TypeOK, Traced, NEW k \in Produced
  PROVE  Range(Append(batch, k)) \subseteq Produced
BY QueueRange DEF TypeOK, Traced, Produced

\* MonitorChain handles what Starcoin has produced.
LEMMA MonitorTraced ==
  ASSUME TypeOK, Queue, Traced, MonitorStep
  PROVE  Traced'
<1>1. UNCHANGED <<tip, forked, headers>> /\ Produced' = Produced
  <2>1. UNCHANGED <<tip, forked>>
    BY StarcoinAlone
  <2>2. UNCHANGED headers
    BY DEF MonitorStep, ReadNodeHeight, Reset, HandleBlockHeader,
       FetchLockDepositEvents, PutStarcoinTxRetry, BlockHandled, LoopEnds,
       CommitHeader, CommitHeaderFails, RollBackToCommAncestor, HeaderConfirmed,
       poly
  <2> QED
    BY <2>1, <2>2 DEF Produced
<1>2. tip \in Nat /\ node \in Nat /\ height \in Nat /\ Useful \in Nat
  BY Constants DEF TypeOK
<1>3. ASSUME UNCHANGED <<node, syncing>>,
             batch' = batch \/ batch' = <<>>, todo' \subseteq todo
      PROVE  Traced'
  BY <1>1, <1>3, EmptyQueue DEF Traced
<1>4. ASSUME pc \in {"loop", "fetch"}, height + Useful < node
      PROVE  Main(height + 1) \in Produced
  <2>1. height + 1 \in 0..tip
    BY <1>2, <1>4 DEF Traced
  <2> QED
    BY <2>1, MainIsProduced
<1>5. CASE ReadNodeHeight
  BY <1>1, <1>2, <1>5 DEF ReadNodeHeight, Traced, poly
<1>6. CASE HandleBlockHeader
  <2>1. Main(height + 1) \in Produced
    BY <1>4, <1>6 DEF HandleBlockHeader, InLoop
  <2>2. Range(batch') \subseteq Produced
    BY <1>6, <2>1, ProducedQueue DEF HandleBlockHeader, Traced
  <2> QED
    BY <1>1, <1>6, <2>2 DEF HandleBlockHeader, Traced, poly
<1>7. CASE FetchLockDepositEvents
  <2>1. Main(height + 1) \in Produced
    BY <1>4, <1>7 DEF FetchLockDepositEvents, Queue
  <2>2. \A e \in todo' : BlockOf[e] \in Produced
    BY <1>7, <2>1 DEF FetchLockDepositEvents, Traced
  <2> QED
    BY <1>1, <1>7, <2>2 DEF FetchLockDepositEvents, Traced, poly
<1>8. CASE CommitHeader
  BY <1>1, <1>8 DEF CommitHeader, Traced
<1>9. ASSUME NEW e \in Event, PutStarcoinTxRetry(e) PROVE Traced'
  BY <1>3, <1>9 DEF PutStarcoinTxRetry, poly
<1>10. CASE \/ Reset \/ BlockHandled \/ LoopEnds \/ CommitHeaderFails
            \/ RollBackToCommAncestor \/ HeaderConfirmed
  BY <1>3, <1>10 DEF Reset, BlockHandled, LoopEnds, CommitHeaderFails,
     RollBackToCommAncestor, HeaderConfirmed, poly
<1> QED
  BY <1>5, <1>6, <1>7, <1>8, <1>9, <1>10 DEF MonitorStep

\* So does everybody else.
LEMMA TracedStays ==
  ASSUME TypeOK, Queue, Traced, [Next]_vars
  PROVE  Traced'
<1>1. /\ tip <= tip' /\ Produced \subseteq Produced'
      /\ tip \in Nat /\ tip' \in Nat /\ node \in Nat
  BY ProducedStays DEF TypeOK
<1>2. ASSUME UNCHANGED <<headers, syncing>>, node' = node \/ node' = 0,
             batch' = batch \/ batch' = <<>>, todo' \subseteq todo
      PROVE  Traced'
  BY <1>1, <1>2, EmptyQueue DEF Traced
<1>3. CASE MonitorStep
  BY <1>3, MonitorTraced
<1>4. ASSUME NEW b \in syncing, PolySyncs(b) PROVE Traced'
  BY <1>1, <1>4 DEF PolySyncs, Traced, monitor
<1>5. ASSUME NEW x \in imports, PolyImports(x) PROVE Traced'
  BY <1>2, <1>5 DEF PolyImports, monitor
<1>6. CASE DepositStep
  <2>1. UNCHANGED <<headers, syncing, monitor>>
    BY <1>6 DEF DepositStep, GetAllStarcoinTxRetry, SkipDeposit,
       GetTransactionProofFails, DeleteDone, CommitProof, PutStarcoinTxCheck,
       DeleteStarcoinTxRetry, DepositsHandled, poly
  <2> QED
    BY <1>2, <2>1 DEF monitor
<1>7. CASE CheckStep
  <2>1. UNCHANGED <<headers, syncing, monitor>>
    BY <1>7 DEF CheckStep, GetAllStarcoinTxCheck, GetSmartContractEvent,
       PutFailedBack, DeleteStarcoinTxCheck, ChecksHandled, poly
  <2> QED
    BY <1>2, <2>1 DEF monitor
<1>8. CASE NewBlock \/ Reorganise \/ Crash \/ UNCHANGED vars
  BY <1>2, <1>8 DEF NewBlock, Reorganise, Crash, vars, poly, monitor
<1> QED
  BY <1>3, <1>4, <1>5, <1>6, <1>7, <1>8 DEF Next, PolyStep

\* An import is never withdrawn.
LEMMA SubmittedStays ==
  ASSUME TypeOK, [Next]_vars, NEW x \in imports
  PROVE  \E y \in imports' : y.event = x.event
<1>1. CASE MonitorStep
  BY <1>1 DEF MonitorStep, ReadNodeHeight, Reset, HandleBlockHeader,
     FetchLockDepositEvents, PutStarcoinTxRetry, BlockHandled, LoopEnds,
     CommitHeader, CommitHeaderFails, RollBackToCommAncestor, HeaderConfirmed,
     poly
<1>2. CASE DepositStep
  BY <1>2 DEF DepositStep, GetAllStarcoinTxRetry, SkipDeposit,
     GetTransactionProofFails, DeleteDone, CommitProof, PutStarcoinTxCheck,
     DeleteStarcoinTxRetry, DepositsHandled, poly
<1>3. CASE CheckStep
  BY <1>3 DEF CheckStep, GetAllStarcoinTxCheck, GetSmartContractEvent,
     PutFailedBack, DeleteStarcoinTxCheck, ChecksHandled, poly
<1>4. ASSUME NEW z \in imports, PolyImports(z)
      PROVE  \E y \in imports' : y.event = x.event
  <2>1. PICK s \in {"ok", "failed"} :
          imports' = (imports \ {z}) \cup {[z EXCEPT !.state = s]}
    BY <1>4 DEF PolyImports
  <2>2. [z EXCEPT !.state = s].event = z.event
    BY DEF TypeOK, Import
  <2> QED
    BY <2>1, <2>2
<1>5. CASE \/ \E b \in syncing : PolySyncs(b)
           \/ NewBlock \/ Reorganise \/ Crash \/ UNCHANGED vars
  BY <1>5 DEF PolySyncs, NewBlock, Reorganise, Crash, vars, poly
<1> QED
  BY <1>1, <1>2, <1>3, <1>4, <1>5 DEF Next, PolyStep

\* MonitorDeposit goes through rows of the retry table, CheckDeposit through
\* the transactions MonitorDeposit has sent.
LEMMA ListedStays ==
  ASSUME TypeOK, TypeOK', Items, Listed, [Next]_vars
  PROVE  Listed'
<1>1. /\ \A e \in Event : Recorded(e) => Recorded(e)'
      /\ \A c \in Check : Submitted(c.event) => Submitted(c.event)'
  BY RecordedStays, SubmittedStays DEF Submitted
<1>2. /\ dep.todo \subseteq Event /\ dep'.todo \subseteq Event
      /\ chk.item \subseteq Check /\ chk'.item \subseteq Check
  BY DEF TypeOK, Depositing, Checking
<1>3. ASSUME \A e \in dep'.todo : e \in dep.todo \/ Recorded(e),
             \A c \in chk'.item : c \in chk.item \/ Submitted(c.event)
      PROVE  Listed'
  BY <1>1, <1>2, <1>3 DEF Listed
<1>4. CASE MonitorStep
  <2>1. UNCHANGED <<dep, chk>>
    BY <1>4 DEF MonitorStep, ReadNodeHeight, Reset, HandleBlockHeader,
       FetchLockDepositEvents, PutStarcoinTxRetry, BlockHandled, LoopEnds,
       CommitHeader, CommitHeaderFails, RollBackToCommAncestor, HeaderConfirmed
  <2> QED
    BY <1>3, <2>1
<1>5. CASE DepositStep
  <2>1. UNCHANGED chk
    BY <1>5 DEF DepositStep, GetAllStarcoinTxRetry, SkipDeposit,
       GetTransactionProofFails, DeleteDone, CommitProof, PutStarcoinTxCheck,
       DeleteStarcoinTxRetry, DepositsHandled
  <2>2. CASE GetAllStarcoinTxRetry \/ DepositsHandled
    <3>1. dep'.todo \subseteq retry
      BY <2>2 DEF GetAllStarcoinTxRetry, DepositsHandled, DepositIdle
    <3> QED
      BY <1>3, <2>1, <3>1 DEF Recorded
  <2>3. ASSUME NEW e \in Event,
               \/ SkipDeposit(e) \/ GetTransactionProofFails(e)
               \/ DeleteDone(e) \/ CommitProof(e)
        PROVE  dep'.todo \subseteq dep.todo
    <3>1. CASE SkipDeposit(e) \/ DeleteDone(e)
      BY <3>1 DEF SkipDeposit, DeleteDone, TypeOK, Depositing
    <3>2. CASE GetTransactionProofFails(e)
      BY <3>2 DEF GetTransactionProofFails, DepositIdle
    <3>3. CASE CommitProof(e)
      BY <3>3 DEF CommitProof, TypeOK, Depositing
    <3> QED
      BY <2>3, <3>1, <3>2, <3>3
  <2>4. ASSUME NEW c \in dep.item,
               PutStarcoinTxCheck(c) \/ DeleteStarcoinTxRetry(c)
        PROVE  dep'.todo = dep.todo
    BY <2>4 DEF PutStarcoinTxCheck, DeleteStarcoinTxRetry, TypeOK, Depositing
  <2> QED
    BY <1>3, <1>5, <2>1, <2>2, <2>3, <2>4 DEF DepositStep
<1>6. CASE CheckStep
  <2>1. UNCHANGED dep
    BY <1>6 DEF CheckStep, GetAllStarcoinTxCheck, GetSmartContractEvent,
       PutFailedBack, DeleteStarcoinTxCheck, ChecksHandled
  <2>2. ASSUME NEW x \in imports, GetSmartContractEvent(x)
        PROVE  chk'.item \subseteq chk.item \cup {IdOf(x)}
    BY <2>2 DEF GetSmartContractEvent, TypeOK, Checking
  <2>3. CASE GetAllStarcoinTxCheck \/ ChecksHandled
    BY <1>3, <2>1, <2>3 DEF GetAllStarcoinTxCheck, ChecksHandled, CheckIdle
  <2>4. ASSUME NEW c \in chk.item,
               PutFailedBack(c) \/ DeleteStarcoinTxCheck(c)
        PROVE  chk'.item \subseteq chk.item
    BY <2>4 DEF PutFailedBack, DeleteStarcoinTxCheck, TypeOK, Checking
  <2>5. \A x \in imports : Submitted(IdOf(x).event)
    BY DEF Submitted, IdOf
  <2> QED
    BY <1>3, <1>6, <2>1, <2>2, <2>3, <2>4, <2>5 DEF CheckStep
<1>7. CASE PolyStep \/ NewBlock \/ Reorganise \/ Crash \/ UNCHANGED vars
  <2>1. /\ dep'.todo \subseteq dep.todo
        /\ chk'.item \subseteq chk.item
    BY <1>7 DEF PolyStep, PolySyncs, PolyImports, NewBlock, Reorganise, Crash,
       vars, DepositIdle, CheckIdle
  <2> QED
    BY <1>3, <2>1
<1> QED
  BY <1>4, <1>5, <1>6, <1>7 DEF Next

\* In every reachable state what is in hand is traced.
THEOREM TracedInvariance == Spec => [](IndInv /\ Traced /\ Listed)
<1>1. Init /\ IndInv => Traced /\ Listed
  <2> SUFFICES ASSUME Init, IndInv PROVE Traced /\ Listed
    OBVIOUS
  <2> USE DEF Init
  <2>1. \A h \in 0..Start : [height |-> h, fork |-> 0] \in Produced
    BY Constants DEF Produced, Header
  <2> QED
    BY <2>1, EmptyQueue, Constants DEF Traced, Listed
<1>2. /\ IndInv /\ IndInv' /\ Traced /\ Listed
      /\ [Next]_vars
      => Traced' /\ Listed'
  BY TracedStays, ListedStays DEF IndInv
<1> QED
  BY <1>1, <1>2, LockInvariance, PTL DEF Spec

-----------------------------------------------------------------------------
(***************************************************************************)
(* The relay implements LockDelivery.                                      *)
(***************************************************************************)
chains_ == <<Produced, {Main(h) : h \in 0..tip}, headers, best>>
events_ == <<Recorded_, Submitted_, Imported_>>

\* A step that leaves the rows and the imports alone.
LEMMA SameEvents ==
  ASSUME UNCHANGED <<retry, imports>>
  PROVE  UNCHANGED events_
BY DEF events_, Recorded_, Submitted_, Imported_, Recorded, Submitted, Imported

LEMMA SameBlocks ==
  ASSUME UNCHANGED <<tip, forked>>
  PROVE  /\ Produced' = Produced
         /\ {Main(h) : h \in 0..tip}' = {Main(h) : h \in 0..tip}
BY DEF Produced, Main

\* MonitorChain records events of blocks that Starcoin has produced.
LEMMA MonitorDelivers ==
  ASSUME TypeOK, Traced, MonitorStep
  PROVE  \/ UNCHANGED <<chains_, events_>>
         \/ \E e \in Event : Delivery!Record(e)
<1>1. UNCHANGED <<tip, forked, headers, best, imports>>
  <2>1. UNCHANGED <<tip, forked>>
    BY StarcoinAlone
  <2> QED
    BY <2>1 DEF MonitorStep, ReadNodeHeight, Reset, HandleBlockHeader,
       FetchLockDepositEvents, PutStarcoinTxRetry, BlockHandled, LoopEnds,
       CommitHeader, CommitHeaderFails, RollBackToCommAncestor, HeaderConfirmed,
       poly
<1>2. UNCHANGED chains_
  BY <1>1, SameBlocks DEF chains_
<1>3. CASE UNCHANGED retry
  BY <1>1, <1>2, <1>3, SameEvents
<1>4. ASSUME NEW e \in Event, e \in todo, retry' = retry \cup {e}
      PROVE  Delivery!Record(e)
  <2>1. BlockOf[e] \in Produced
    BY <1>4 DEF Traced
  <2>2. Recorded_' = Recorded_ \cup {e}
    BY <1>1, <1>4 DEF Recorded_, Recorded
  <2>3. UNCHANGED <<Submitted_, Imported_>>
    BY <1>1 DEF Submitted_, Imported_, Submitted, Imported
  <2> QED
    BY <1>2, <2>1, <2>2, <2>3
       DEF Delivery!Record, Delivery!chains, chains_, Recorded_, Submitted_,
           Imported_
<1>5. \/ UNCHANGED retry
      \/ \E e \in Event : e \in todo /\ retry' = retry \cup {e}
  BY DEF MonitorStep, ReadNodeHeight, Reset, HandleBlockHeader,
     FetchLockDepositEvents, PutStarcoinTxRetry, BlockHandled, LoopEnds,
     CommitHeader, CommitHeaderFails, RollBackToCommAncestor, HeaderConfirmed,
     tables
<1> QED
  BY <1>3, <1>4, <1>5

\* MonitorDeposit submits what is recorded; it deletes only rows of what it
\* has submitted.
LEMMA DepositDelivers ==
  ASSUME TypeOK, Items, Listed, DepositStep
  PROVE  \/ UNCHANGED <<chains_, events_>>
         \/ \E e \in Event : Delivery!Submit(e)
<1>1. UNCHANGED chains_
  <2>1. UNCHANGED <<tip, forked>>
    BY StarcoinAlone
  <2>2. UNCHANGED <<headers, best>>
    BY DEF DepositStep, GetAllStarcoinTxRetry, SkipDeposit,
       GetTransactionProofFails, DeleteDone, CommitProof, PutStarcoinTxCheck,
       DeleteStarcoinTxRetry, DepositsHandled, poly
  <2> QED
    BY <2>1, <2>2, SameBlocks DEF chains_
<1>2. CASE UNCHANGED <<retry, imports>>
  BY <1>1, <1>2, SameEvents
<1>3. ASSUME NEW e, e \in Event => Submitted(e), retry' = retry \ {e},
             UNCHANGED imports
      PROVE  UNCHANGED events_
  <2>1. Recorded_' = Recorded_
    BY <1>3 DEF Recorded_, Recorded, Submitted
  <2>2. UNCHANGED <<Submitted_, Imported_>>
    BY <1>3 DEF Submitted_, Imported_, Submitted, Imported
  <2> QED
    BY <2>1, <2>2 DEF events_
<1>4. ASSUME NEW e \in Event, DeleteDone(e) PROVE UNCHANGED events_
  <2>1. Submitted(e) /\ retry' = retry \ {e} /\ UNCHANGED imports
    BY <1>4 DEF DeleteDone, Imported, Submitted, poly
  <2> QED
    BY <1>3, <2>1
<1>5. ASSUME NEW c \in dep.item, DeleteStarcoinTxRetry(c)
      PROVE  UNCHANGED events_
  <2>1. UNCHANGED imports /\ Submitted(c.event)
    BY <1>5 DEF DeleteStarcoinTxRetry, Items, Submitted, poly
  <2>2. retry' = retry \ {c.event} \/ UNCHANGED retry
    BY <1>5 DEF DeleteStarcoinTxRetry
  <2> QED
    BY <1>3, <2>1, <2>2, SameEvents
<1>6. ASSUME NEW e \in Event, CommitProof(e) PROVE Delivery!Submit(e)
  <2>1. PICK n \in 1..MaxImports :
          imports' = imports \cup {[event |-> e, n |-> n, state |-> "pending"]}
    BY <1>6 DEF CommitProof
  <2>2. UNCHANGED retry
    BY <1>6 DEF CommitProof, tables
  <2>3. Submitted_' = Submitted_ \cup {e}
    <3> DEFINE new == [event |-> e, n |-> n, state |-> "pending"]
    <3>1. imports' = imports \cup {new} /\ new.event = e
      BY <2>1
    <3> HIDE DEF new
    <3>2. \A f \in Event : Submitted(f)' <=> Submitted(f) \/ f = e
      BY <3>1 DEF Submitted
    <3> QED
      BY <3>2 DEF Submitted_
  <2>4. Recorded(e)
    BY <1>6 DEF CommitProof, Listed
  <2>5. Recorded_' = Recorded_
    BY <2>1, <2>2, <2>4 DEF Recorded_, Recorded
  <2>6. Imported_' = Imported_
    BY <2>1 DEF Imported_, Imported
  <2> QED
    BY <1>1, <2>3, <2>4, <2>5, <2>6
       DEF Delivery!Submit, Delivery!chains, chains_, Recorded_, Submitted_,
           Imported_
<1>7. ASSUME \/ GetAllStarcoinTxRetry \/ DepositsHandled
             \/ \E e \in Event : SkipDeposit(e) \/ GetTransactionProofFails(e)
             \/ \E c \in dep.item : PutStarcoinTxCheck(c)
      PROVE  UNCHANGED <<retry, imports>>
  BY <1>7 DEF GetAllStarcoinTxRetry, DepositsHandled, SkipDeposit,
     GetTransactionProofFails, PutStarcoinTxCheck, poly, tables
<1> QED
  BY <1>1, <1>2, <1>4, <1>5, <1>6, <1>7 DEF DepositStep

\* CheckDeposit puts back only what was submitted.
LEMMA CheckDelivers ==
  ASSUME TypeOK, Listed, CheckStep
  PROVE  UNCHANGED <<chains_, events_>>
<1>1. UNCHANGED <<headers, best, imports>>
  BY DEF CheckStep, GetAllStarcoinTxCheck, GetSmartContractEvent, PutFailedBack,
     DeleteStarcoinTxCheck, ChecksHandled, poly
<1>2. UNCHANGED chains_
  BY <1>1, StarcoinAlone, SameBlocks DEF chains_
<1>3. \/ UNCHANGED retry
      \/ \E c \in chk.item : retry' = retry \cup {c.event}
  BY DEF CheckStep, GetAllStarcoinTxCheck, GetSmartContractEvent, PutFailedBack,
     DeleteStarcoinTxCheck, ChecksHandled, tables
<1>4. ASSUME NEW c \in chk.item, retry' = retry \cup {c.event}
      PROVE  UNCHANGED events_
  <2>1. Recorded_' = Recorded_
    BY <1>1, <1>4 DEF Recorded_, Recorded, Listed, Submitted
  <2>2. UNCHANGED <<Submitted_, Imported_>>
    BY <1>1 DEF Submitted_, Imported_, Submitted, Imported
  <2> QED
    BY <2>1, <2>2 DEF events_
<1> QED
  BY <1>1, <1>2, <1>3, <1>4, SameEvents

\* Poly executes an import it can verify, once.
LEMMA PolyImportDelivers ==
  ASSUME TypeOK, NEW x \in imports, PolyImports(x)
  PROVE  \/ UNCHANGED <<chains_, events_>>
         \/ Delivery!Import(x.event) /\ x.event \in Event
<1>1. UNCHANGED chains_
  <2>1. UNCHANGED <<headers, best>>
    BY DEF PolyImports
  <2> QED
    BY <2>1, StarcoinAlone, SameBlocks DEF chains_, PolyStep
<1>2. x.event \in Event /\ x.state = "pending" /\ UNCHANGED retry
  BY DEF TypeOK, Import, PolyImports, tables
<1>3. ASSUME NEW s \in {"ok", "failed"},
             imports' = (imports \ {x}) \cup {[x EXCEPT !.state = s]}
      PROVE  /\ UNCHANGED <<Recorded_, Submitted_>>
             /\ s = "failed" => UNCHANGED Imported_
             /\ s = "ok" => Imported_' = Imported_ \cup {x.event}
  <2>1. /\ [x EXCEPT !.state = s].event = x.event
        /\ [x EXCEPT !.state = s].state = s
    BY DEF TypeOK, Import
  <2>2. \A e \in Event : Submitted(e)' <=> Submitted(e)
    BY <1>3, <2>1 DEF Submitted
  <2>3. \A e \in Event :
          Imported(e)' <=> Imported(e) \/ (s = "ok" /\ e = x.event)
    BY <1>2, <1>3, <2>1 DEF Imported
  <2> QED
    BY <1>2, <2>2, <2>3 DEF Recorded_, Submitted_, Imported_, Recorded, Submitted
<1>4. CASE imports' = (imports \ {x}) \cup {[x EXCEPT !.state = "failed"]}
  BY <1>1, <1>3, <1>4 DEF events_
<1>5. CASE /\ imports' = (imports \ {x}) \cup {[x EXCEPT !.state = "ok"]}
           /\ Provable(x.event) /\ ~Imported(x.event)
  <2>1. x.event \in Submitted_ \ Imported_
    BY <1>2, <1>5 DEF Submitted_, Imported_, Submitted
  <2>2. /\ best \in Header /\ best.height \in Nat
        /\ BlockOf[x.event].height \in Nat
    BY <1>2, Constants DEF TypeOK, Header
  <2>3. BlockOf[x.event] \in {Ancestor(best, h) : h \in 0..best.height}
    BY <1>5, <2>2 DEF Provable, PolyMain
  <2> QED
    BY <1>1, <1>2, <1>3, <1>5, <2>1, <2>2, <2>3
       DEF Delivery!Import, Delivery!chains, chains_, Recorded_, Submitted_,
           Imported_
<1> QED
  BY <1>4, <1>5 DEF PolyImports

\* Of two headers neither of which is heavier, as their weights.
LEMMA WeightOf ==
  ASSUME NEW k \in Header, NEW g \in Header, ~Heavier(k, g)
  PROVE  2 * k.height + k.fork <= 2 * g.height + g.fork
<1>1. /\ k.height \in Nat /\ g.height \in Nat
      /\ k.fork \in {0, 1} /\ g.fork \in {0, 1}
  BY Constants DEF Header
<1>2. k.height < g.height \/ (k.height = g.height /\ k.fork <= g.fork)
  BY <1>1 DEF Heavier
<1> QED
  BY <1>1, <1>2

\* Poly learns headers of blocks whose events are recorded.
LEMMA PolySyncDelivers ==
  ASSUME IndInv, IndInv', Traced, NEW b \in syncing, PolySyncs(b)
  PROVE  Delivery!SyncHeaders
<1>1. UNCHANGED <<tip, forked, retry, imports>>
  BY DEF PolySyncs, starcoin, tables
<1>2. UNCHANGED <<Produced, {Main(h) : h \in 0..tip}, events_>>
  BY <1>1, SameBlocks, SameEvents
<1>3. /\ headers' = headers \cup Range(b)
      /\ headers' \subseteq Produced
      /\ headers' \subseteq Header /\ best \in Header
  BY DEF PolySyncs, Traced, Produced, IndInv, TypeOK
<1>4. ASSUME NEW k \in headers'
      PROVE  [j \in Header |-> {Ancestor(j, h) : h \in 0..j.height}][k]
               \subseteq headers'
  BY <1>3, <1>4 DEF IndInv, Chain
<1>5. ASSUME NEW e \in Event \ Recorded_, BlockOf[e] \in headers' \ headers,
             BlockOf[e] \in {Main(h) : h \in 0..tip}
      PROVE  FALSE
  <2>1. Canonical(e)
    BY <1>5 DEF Canonical, Main
  <2>2. InSyncing(BlockOf[e])
    BY <1>3, <1>5 DEF InSyncing
  <2> QED
    BY <1>5, <2>1, <2>2 DEF IndInv, Recording, Recorded_
<1>6. PICK g \in {best} \cup Range(b) :
        /\ \A k \in {best} \cup Range(b) : ~Heavier(k, g)
        /\ best' = g
  BY DEF PolySyncs
<1>7. best' \in headers' /\ best' \in Header
  BY <1>3, <1>6 DEF IndInv, Chain
<1>8. ASSUME NEW k \in {best} \cup (headers' \ headers)
      PROVE  [j \in Header |-> 2 * j.height + j.fork][k]
               <= [j \in Header |-> 2 * j.height + j.fork][best']
  <2>1. k \in Header /\ ~Heavier(k, best')
    BY <1>3, <1>6, <1>8
  <2> QED
    BY <1>7, <2>1, WeightOf
<1> QED
  BY <1>2, <1>3, <1>4, <1>5, <1>7, <1>8
     DEF Delivery!SyncHeaders, Delivery!events, events_, Recorded_, Submitted_,
         Imported_

\* Starcoin's chain grows, or changes its branch, by blocks that Poly has not
\* heard of.
LEMMA StarcoinDelivers ==
  ASSUME IndInv, Traced, NewBlock \/ Reorganise
  PROVE  Delivery!Produce
<1>1. UNCHANGED <<headers, best, retry, imports>>
  BY DEF NewBlock, Reorganise, poly, tables
<1>2. UNCHANGED <<headers, best, events_>>
  BY <1>1, SameEvents
<1>3. TypeOK /\ tip \in Nat /\ Produced \subseteq Produced'
  BY ProducedStays DEF IndInv, TypeOK, Next
<1>4. {Main(h) : h \in 0..tip}' \subseteq Produced'
  <2>1. tip' \in 0..Top
    BY <1>3, Constants DEF NewBlock, Reorganise, TypeOK
  <2>2. ASSUME NEW h \in 0..tip' PROVE Main(h)' \in Produced'
    <3>1. h \in 0..Top
      BY <2>1, <2>2, Constants
    <3>2. Main(h)' \in Header /\ Main(h)'.height = h
      BY <3>1, Constants DEF Main, ForkOf, Header
    <3>3. Main(h)'.fork = 0 \/ forked'
      BY DEF Main, ForkOf
    <3> QED
      BY <3>2, <3>3 DEF Produced
  <2> QED
    BY <2>2
<1>5. ASSUME NEW h \in 0..tip', Main(h)' \in headers
      PROVE  \E k \in 0..tip : Main(h)' = Main(k)
  <2>1. Main(h)' \in Produced /\ Main(h)'.height = h /\ h \in Nat
    BY <1>5 DEF Traced, Main
  <2>2. h \in 0..tip
    BY <1>3, <2>1 DEF Produced
  <2>3. CASE forked' = forked
    BY <2>2, <2>3 DEF Main
  <2>4. CASE Reorganise
    <3>1. ~forked /\ Main(h)'.fork = 0
      BY <1>5, <2>4 DEF Reorganise, IndInv, Forks
    <3>2. Main(h)' = Main(h)
      BY <3>1 DEF Main, ForkOf
    <3> QED
      BY <2>2, <3>2
  <2> QED
    BY <2>3, <2>4 DEF NewBlock
<1>6. ({Main(h) : h \in 0..tip}' \ {Main(h) : h \in 0..tip}) \cap headers = {}
  BY <1>5
<1> QED
  BY <1>2, <1>3, <1>4, <1>6
     DEF Delivery!Produce, Delivery!events, events_, Recorded_, Submitted_,
         Imported_

\* The lock relay implements LockDelivery: the steps of the goroutines, of
\* Poly and of Starcoin make a step of it or none.
THEOREM LockRelayImplementsDelivery == Spec => ImplementsLockDelivery
<1>1. Init => Delivery!Init
  <2> SUFFICES ASSUME Init PROVE Delivery!Init
    OBVIOUS
  <2> USE Constants DEF Init
  <2>1. /\ [height |-> Start, fork |-> 0] \in Header
        /\ \A h \in 0..Start : h \in 0..Top
    BY DEF Header
  <2>2. \A h \in 0..Start :
          /\ Main(h) = [height |-> h, fork |-> 0]
          /\ Ancestor([height |-> Start, fork |-> 0], h) = [height |-> h, fork |-> 0]
    BY DEF Main, Ancestor, ForkOf
  <2>3. headers = {Ancestor([height |-> Start, fork |-> 0], h) : h \in 0..Start}
    BY <2>2
  <2>4. headers = {Main(h) : h \in 0..tip}
    BY <2>2
  <2>5. headers = Produced
    <3>1. headers \subseteq Produced
      BY <2>1 DEF Produced, Header
    <3>2. ASSUME NEW k \in Produced PROVE k \in headers
      <4>1. k \in Header /\ k.height <= Start /\ k.fork = 0
        BY <3>2 DEF Produced
      <4>2. k.height \in 0..Start /\ k = [height |-> k.height, fork |-> 0]
        BY <4>1 DEF Header
      <4> QED
        BY <4>2
    <3> QED
      BY <3>1, <3>2
  <2>6. Recorded_ = {} /\ Submitted_ = {} /\ Imported_ = {}
    BY DEF Recorded_, Submitted_, Imported_, Recorded, Submitted, Imported
  <2> QED
    BY <2>1, <2>3, <2>4, <2>5, <2>6
       DEF Delivery!Init, Recorded_, Submitted_, Imported_
<1>2. ASSUME IndInv, IndInv', Traced, Listed, [Next]_vars
      PROVE  Delivery!Next \/ UNCHANGED <<chains_, events_>>
  <2>1. CASE MonitorStep
    BY <1>2, <2>1, MonitorDelivers DEF IndInv, Delivery!Next
  <2>2. CASE DepositStep
    BY <1>2, <2>2, DepositDelivers DEF IndInv, Delivery!Next
  <2>3. CASE CheckStep
    BY <1>2, <2>3, CheckDelivers DEF IndInv
  <2>4. ASSUME NEW b \in syncing, PolySyncs(b) PROVE Delivery!SyncHeaders
    BY <1>2, <2>4, PolySyncDelivers
  <2>5. ASSUME NEW x \in imports, PolyImports(x)
        PROVE  \/ UNCHANGED <<chains_, events_>>
               \/ Delivery!Import(x.event) /\ x.event \in Event
    BY <1>2, <2>5, PolyImportDelivers DEF IndInv
  <2>6. CASE NewBlock \/ Reorganise
    BY <1>2, <2>6, StarcoinDelivers DEF Delivery!Next
  <2>7. CASE Crash \/ UNCHANGED vars
    <3>1. UNCHANGED <<tip, forked, headers, best, retry, imports>>
      BY <2>7 DEF Crash, vars, starcoin, poly, tables
    <3> QED
      BY <3>1, SameEvents, SameBlocks DEF chains_
  <2> QED
    BY <1>2, <2>1, <2>2, <2>3, <2>4, <2>5, <2>6, <2>7
       DEF Next, PolyStep, Delivery!Next
<1>3. UNCHANGED <<chains_, events_>>
        => UNCHANGED <<Delivery!chains, Delivery!events>>
  BY DEF chains_, events_, Delivery!chains, Delivery!events, Recorded_,
     Submitted_, Imported_
<1> QED
  BY <1>1, <1>2, <1>3, LockInvariance, TracedInvariance, PTL
     DEF Spec, ImplementsLockDelivery, Delivery!Spec
=============================================================================
