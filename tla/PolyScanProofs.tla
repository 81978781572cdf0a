--------------------------- MODULE PolyScanProofs ---------------------------
(***************************************************************************)
(* No transfer is missed: for any blocks, epochs, failed calls and deaths  *)
(* of the process, and with or without config.CheckFee.                    *)
(***************************************************************************)
EXTENDS PolyScan, TLAPS

\* MonitorChain stays below the tip of Poly, and a restart does not take it
\* below Start by more than one height for each.
Bounds ==
  /\ height + crashes >= Start /\ saved + 1 + crashes >= Start
  /\ latest + Useful < Top
  /\ pc = "loop" => height <= latest + 1
  /\ pc \in {"header", "events", "change", "confirm"} => height <= latest
  /\ epoch >= Start /\ epoch < Top /\ changes \subseteq 0..(Top - 1)

\* The transfer is in a table or was left out for want of a proof.
Settled(e) == Recorded(e) \/ e \in missed

SettledBlock(h) == \A i \in DOMAIN Block[h] : Settled(Block[h][i])

\* Heights that are passed, or will be when a changeBookKeeper transaction
\* that Starcoin has accepted is executed.
Behind == \A h \in Height :
            Passed(h) \/ (\E k \in changes : h < k) => SettledBlock(h)

\* The block at hand: its transfers so far, all of them when the book keepers
\* are changed.
AtHand ==
  /\ pc = "events" /\ processed =>
       \A i \in DOMAIN Block[height] : i < next => Settled(Block[height][i])
  /\ pc \in {"change", "confirm"} => SettledBlock(height)

\* What MonitorDeposit is about to delete is in poly_tx.
Moved == dep.item \subseteq rows

IndInv == TypeOK /\ Bounds /\ Behind /\ AtHand /\ Moved

-----------------------------------------------------------------------------
\* The constants as the proofs use them.
LEMMA Constants ==
  /\ Top \in Nat /\ Start \in Nat /\ Start + 2 <= Top
  /\ Block \in [0..Top -> Seq(Event)]
  /\ \A h \in 0..Top : h < Start => Block[h] = <<>>
  /\ MaxErrors \in Nat /\ MaxCrashes \in Nat /\ MaxCrashes < Start
BY ScanConstants DEF ScanConstants

LEMMA Blocks ==
  ASSUME NEW h \in Height
  PROVE  /\ Block[h] \in Seq(Event) /\ Len(Block[h]) \in Nat
         /\ DOMAIN Block[h] = 1..Len(Block[h])
<1>1. Block[h] \in Seq(Event)
  BY Constants DEF Height
<1> QED
  BY <1>1

-----------------------------------------------------------------------------
(***************************************************************************)
(* Types and bounds.                                                       *)
(***************************************************************************)
\* The number of errors stays in its bounds.
LEMMA ErrorBound ==
  ASSUME errors \in 0..MaxErrors,
         errors' = errors \/ (errors + 1 <= MaxErrors /\ errors' = errors + 1)
  PROVE  errors' \in 0..MaxErrors
BY Constants

\* The height after one that is not past the latest.
LEMMA NextHeight ==
  ASSUME NEW h \in Nat, NEW l \in Nat, NEW c \in Nat,
         h <= l, l + Useful < Top, h + c >= Start
  PROVE  h + 1 \in Height /\ h + 1 <= l + 1 /\ (h + 1) + c >= Start
BY Constants DEF Useful, Height

\* MonitorChain keeps the types: it does not pass the tip, and the height it
\* saves does not wrap.
LEMMA MonitorTypes ==
  ASSUME TypeOK, Bounds, MonitorStep
  PROVE  TypeOK' /\ Bounds'
<1> USE Constants DEF TypeOK, Bounds, starcoin, tables, handling, Error, Fail,
                      Useful, Height
<1>1. CASE ReadPolyHeight
  BY <1>1 DEF ReadPolyHeight
<1>2. CASE LoopEnds
  BY <1>2 DEF LoopEnds
<1>3. CASE FindCurEpochStartHeight
  BY <1>3 DEF FindCurEpochStartHeight, InLoop
<1>4. CASE GetHeader
  <2>1. AnchorAt(height, lastEpoch, NewKeepers) \in Anchor /\ NoHeader \in Anchor
    BY <1>4 DEF GetHeader, AnchorAt, Anchor, NoHeader
  <2>2. isEpoch' \in BOOLEAN /\ found' \in BOOLEAN /\ processed' \in BOOLEAN
    BY <1>4, Zenon DEF GetHeader, NewKeepers
  <2>3. anchor' \in Anchor /\ errors' \in 0..MaxErrors
    BY <1>4, <2>1 DEF GetHeader
  <2>4. /\ pc = "header" /\ pc' = "events" /\ next' = 1
        /\ UNCHANGED <<tip, starcoin, tables, missed, latest, height, lastEpoch,
                       dep, crashes>>
    BY <1>4 DEF GetHeader
  <2> QED
    BY <2>2, <2>3, <2>4
<1>5. CASE GetHeaderFails
  BY <1>5 DEF GetHeaderFails
<1>6. ASSUME NEW e \in Event, GetCrossStatesProofFails(e)
      PROVE  TypeOK' /\ Bounds'
  <2>1. /\ e \in Event /\ missed' = missed \cup {e} /\ next' = next + 1
        /\ Error
        /\ UNCHANGED <<tip, starcoin, tables, pc, latest, height, lastEpoch,
                       isEpoch, anchor, found, processed, dep, crashes>>
    BY <1>6 DEF GetCrossStatesProofFails
  <2>2. errors' \in 0..MaxErrors /\ next' \in Nat \ {0}
    BY <2>1
  <2> QED
    BY <2>1, <2>2
<1>7. ASSUME NEW e \in Event, PutPolyTxRetry(e) PROVE TypeOK' /\ Bounds'
  <2>1. [event |-> e, anchor |-> Serialized(anchor)] \in Row
    BY DEF Row, Serialized, Anchor, NoHeader
  <2>2. /\ retry' \subseteq Row /\ errors' \in 0..MaxErrors
        /\ next' \in Nat \ {0}
    BY <1>7, <2>1 DEF PutPolyTxRetry, Put, NotSaved
  <2>3. found' \in BOOLEAN /\ processed' \in BOOLEAN
    BY <1>7, Zenon DEF PutPolyTxRetry, Put, NotSaved
  <2>4. UNCHANGED <<tip, starcoin, rows, saved, missed, pc, latest, height,
                    lastEpoch, isEpoch, anchor, dep, crashes>>
    BY <1>7 DEF PutPolyTxRetry
  <2> QED
    BY <2>2, <2>3, <2>4
<1>8. ASSUME NEW e \in Event, PutPolyTx(e) PROVE TypeOK' /\ Bounds'
  <2>1. [event |-> e, anchor |-> anchor] \in Row
    BY DEF Row
  <2>2. /\ rows' \subseteq Row /\ errors' \in 0..MaxErrors
        /\ next' \in Nat \ {0}
    BY <1>8, <2>1 DEF PutPolyTx, Put, NotSaved
  <2>3. found' \in BOOLEAN /\ processed' \in BOOLEAN
    BY <1>8, Zenon DEF PutPolyTx, Put, NotSaved
  <2>4. UNCHANGED <<tip, starcoin, retry, saved, missed, pc, latest, height,
                    lastEpoch, isEpoch, anchor, dep, crashes>>
    BY <1>8 DEF PutPolyTx
  <2> QED
    BY <2>2, <2>3, <2>4
<1>9. CASE HeightHandled
  <2>1. /\ pc = "events"
        /\ \/ pc' \in {"save", "change"} /\ UNCHANGED height
           \/ pc' = "loop" /\ height' = height + 1
        /\ UNCHANGED <<tip, starcoin, tables, missed, latest, handling, dep,
                       errors, crashes>>
    BY <1>9 DEF HeightHandled
  <2>2. CASE pc' \in {"save", "change"} /\ UNCHANGED height
    BY <2>1, <2>2
  <2>3. CASE pc' = "loop" /\ height' = height + 1
    <3>1. height' \in Height /\ height' <= latest' + 1
          /\ height' + crashes' >= Start
      <4>1. /\ height \in Nat /\ latest \in Nat /\ crashes \in Nat
            /\ height <= latest /\ latest + Useful < Top
            /\ height + crashes >= Start
        BY <2>1
      <4>2. latest' = latest /\ crashes' = crashes
        BY <2>1
      <4> QED
        BY <2>3, <4>1, <4>2, NextHeight
    <3> QED
      BY <2>1, <2>3, <3>1
  <2> QED
    BY <2>1, <2>2, <2>3
<1>10. CASE ChangeBookKeeper
  <2>1. changes' \subseteq 0..(Top - 1) /\ pc' \in {"confirm", "save"}
    <3>1. changes' \subseteq changes \cup {height + 1}
      BY <1>10 DEF ChangeBookKeeper
    <3>2. height + 1 \in 0..(Top - 1)
      BY <1>10 DEF ChangeBookKeeper
    <3>3. pc' \in {"confirm", "save"}
      BY <1>10 DEF ChangeBookKeeper
    <3> QED
      BY <3>1, <3>2, <3>3
  <2>2. errors' \in 0..MaxErrors
    BY <1>10 DEF ChangeBookKeeper
  <2>3. /\ pc = "change"
        /\ UNCHANGED <<tip, epoch, accepting, tables, missed, latest, height,
                       handling, dep, crashes>>
    BY <1>10 DEF ChangeBookKeeper
  <2> QED
    BY <2>1, <2>2, <2>3
<1>11. CASE WaitTransactionConfirm
  BY <1>11 DEF WaitTransactionConfirm
<1>12. CASE UpdatePolyHeight
  <2>1. /\ pc' = "idle"
        /\ saved' = height - 1 \/ UNCHANGED saved
        /\ UNCHANGED <<tip, starcoin, rows, retry, missed, latest, height,
                       handling, dep, crashes>>
    BY <1>12 DEF UpdatePolyHeight, SavedHeight
  <2>2. errors' \in 0..MaxErrors
    <3>1. errors' = errors \/ (errors + 1 <= MaxErrors /\ errors' = errors + 1)
      BY <1>12, Zenon DEF UpdatePolyHeight
    <3> QED
      BY <3>1, ErrorBound, Zenon
  <2>3. height - 1 \in Height /\ (height - 1) + 1 + crashes >= Start
    <3>1. /\ height \in 0..(Top - 1) /\ crashes \in 0..MaxCrashes
          /\ height + crashes >= Start
      OBVIOUS
    <3> QED
      BY ONLY <3>1, Constants DEF Height
  <2>4. saved' \in Height /\ saved' + 1 + crashes' >= Start
    BY <2>1, <2>3
  <2>5. TypeOK'
    BY <2>1, <2>2, <2>4
  <2>6. Bounds'
    BY <2>1, <2>4
  <2> QED
    BY <2>5, <2>6
<1> QED
  BY <1>1, <1>2, <1>3, <1>4, <1>5, <1>6, <1>7, <1>8, <1>9, <1>10, <1>11, <1>12
     DEF MonitorStep

LEMMA DepositTypes ==
  ASSUME TypeOK, Bounds, DepositStep
  PROVE  TypeOK' /\ Bounds'
<1> USE Constants DEF TypeOK, Bounds, starcoin, tables, handling, monitor, Error,
                      Fail
<1>1. CASE GetAllPolyTxRetry
  BY <1>1 DEF GetAllPolyTxRetry, Depositing
<1>2. ASSUME NEW r \in dep.todo, SkipPolyTxRetry(r) PROVE TypeOK' /\ Bounds'
  <2>1. dep' \in Depositing
    BY <1>2 DEF SkipPolyTxRetry, Depositing
  <2>2. errors' \in 0..MaxErrors
    <3>1. errors' = errors \/ (errors + 1 <= MaxErrors /\ errors' = errors + 1)
      BY <1>2, Zenon DEF SkipPolyTxRetry
    <3> QED
      BY <3>1, ErrorBound, Zenon
  <2>3. UNCHANGED <<tip, starcoin, tables, missed, monitor, crashes>>
    BY <1>2 DEF SkipPolyTxRetry
  <2> QED
    BY <2>1, <2>2, <2>3
<1>3. ASSUME NEW r \in dep.todo, PutPolyTxThenSend(r) PROVE TypeOK' /\ Bounds'
  <2>1. rows' \subseteq Row /\ dep' \in Depositing
    BY <1>3 DEF PutPolyTxThenSend, Depositing
  <2>2. UNCHANGED <<tip, starcoin, retry, saved, missed, monitor, errors, crashes>>
    BY <1>3 DEF PutPolyTxThenSend
  <2> QED
    BY <2>1, <2>2
<1>4. ASSUME NEW r \in dep.item, DeletePolyTxRetry(r) PROVE TypeOK' /\ Bounds'
  <2>1. retry' \subseteq Row /\ errors' \in 0..MaxErrors /\ dep' \in Depositing
    <3>1. retry' \subseteq Row
      BY <1>4 DEF DeletePolyTxRetry
    <3>2. errors' \in 0..MaxErrors
      <4>1. errors' = errors \/ (errors + 1 <= MaxErrors /\ errors' = errors + 1)
        BY <1>4, Zenon DEF DeletePolyTxRetry
      <4> QED
        BY <4>1, ErrorBound, Zenon
    <3>3. dep' \in Depositing
      BY <1>4 DEF DeletePolyTxRetry, Depositing
    <3> QED
      BY <3>1, <3>2, <3>3
  <2>2. UNCHANGED <<tip, starcoin, rows, saved, missed, monitor, crashes>>
    BY <1>4 DEF DeletePolyTxRetry
  <2> QED
    BY <2>1, <2>2
<1>5. CASE RetriesHandled
  BY <1>5 DEF RetriesHandled, DepositIdle, Depositing
<1> QED
  BY <1>1, <1>2, <1>3, <1>4, <1>5 DEF DepositStep

\* A restart starts from the saved height s or from an epoch beyond b.
LEMMA RestartBound ==
  ASSUME NEW b \in Nat, NEW s \in Nat, NEW e \in Nat, NEW h \in Nat, NEW c \in Nat,
         s + 1 + c >= b, e >= b, h >= s \/ h >= e
  PROVE  h + (c + 1) >= b /\ s + 1 + (c + 1) >= b
OBVIOUS

LEMMA OtherTypes ==
  ASSUME TypeOK, Bounds,
         \/ NewBlock \/ \E e \in Event : AcceptToken(e)
         \/ \E k \in changes : ChangeBookKeeperRuns(k)
         \/ Crash
  PROVE  TypeOK' /\ Bounds'
<1> USE Constants DEF TypeOK, Bounds, starcoin, tables, handling, monitor, Error,
                      Fail, Height
<1>1. CASE NewBlock
  BY <1>1 DEF NewBlock
<1>2. ASSUME NEW e \in Event, AcceptToken(e) PROVE TypeOK' /\ Bounds'
  BY <1>2 DEF AcceptToken
<1>3. ASSUME NEW k \in changes, ChangeBookKeeperRuns(k) PROVE TypeOK' /\ Bounds'
  BY <1>3 DEF ChangeBookKeeperRuns
<1>4. CASE Crash
  <2>1. 0 \in Anchor
    BY DEF Anchor, NoHeader
  <2>2. DepositIdle \in Depositing
    BY DEF DepositIdle, Depositing
  <2>3. /\ errors' \in 0..MaxErrors /\ crashes' = crashes + 1
        /\ crashes' \in 0..MaxCrashes
    BY <1>4 DEF Crash
  <2>4. height' \in Height /\ (height' >= saved \/ height' >= epoch)
    BY <1>4 DEF Crash, InitHeight
  <2>5. /\ pc' = "idle" /\ latest' = 0
        /\ lastEpoch' = 0 /\ anchor' = 0 /\ next' = 1 /\ dep' = DepositIdle
        /\ UNCHANGED <<tip, starcoin, tables, missed>>
    BY <1>4 DEF Crash
  <2>6. isEpoch' \in BOOLEAN /\ found' \in BOOLEAN /\ processed' \in BOOLEAN
    BY <1>4, Zenon DEF Crash
  <2>7. Bounds'
    <3>1. UNCHANGED <<saved, epoch, changes>>
      BY <2>5
    <3>2. height' + crashes' >= Start /\ (saved + 1 + crashes >= Start)'
      <4>1. /\ saved \in Nat /\ epoch \in Nat /\ crashes \in Nat /\ Start \in Nat
            /\ saved + 1 + crashes >= Start /\ epoch >= Start
        OBVIOUS
      <4>2. height' \in Nat /\ (height' >= saved \/ height' >= epoch)
        BY <2>4
      <4>3. crashes' = crashes + 1 /\ saved' = saved
        BY <2>3, <3>1
      <4> QED
        BY <4>1, <4>2, <4>3, RestartBound
    <3>3. pc' = "idle" /\ latest' = 0
      BY <2>5
    <3>4. latest' + Useful < Top
      BY <3>3 DEF Useful
    <3>5. (epoch >= Start /\ epoch < Top /\ changes \subseteq 0..(Top - 1))'
      BY <3>1
    <3> QED
      BY <3>2, <3>3, <3>4, <3>5
  <2>8. TypeOK'
    BY <2>1, <2>2, <2>3, <2>4, <2>5, <2>6
  <2> QED
    BY <2>7, <2>8
<1> QED
  BY <1>1, <1>2, <1>3, <1>4

-----------------------------------------------------------------------------
(***************************************************************************)
(* Transfers stay where they are recorded.                                 *)
(***************************************************************************)
\* A row of poly_tx_retry is deleted only when poly_tx has its transfer.
LEMMA StaysSettled ==
  ASSUME TypeOK, Moved, Next
  PROVE  \A e \in Event : Settled(e) => Settled(e)'
<1> USE DEF Settled, Recorded
<1>1. ASSUME rows \subseteq rows', retry \subseteq retry', missed \subseteq missed'
      PROVE  \A e \in Event : Settled(e) => Settled(e)'
  BY <1>1
<1>2. CASE MonitorStep
  <2> USE DEF starcoin, tables, handling
  <2>1. rows \subseteq rows' /\ retry \subseteq retry' /\ missed \subseteq missed'
    BY <1>2 DEF MonitorStep, ReadPolyHeight, LoopEnds, FindCurEpochStartHeight,
                GetHeader, GetHeaderFails, GetCrossStatesProofFails,
                PutPolyTxRetry, PutPolyTx, Put, NotSaved, HeightHandled,
                ChangeBookKeeper, WaitTransactionConfirm, UpdatePolyHeight
  <2> QED
    BY <1>1, <2>1
<1>3. CASE DepositStep
  <2> USE DEF tables
  <2>1. CASE GetAllPolyTxRetry \/ RetriesHandled
    BY <1>1, <2>1 DEF GetAllPolyTxRetry, RetriesHandled
  <2>2. ASSUME NEW r \in dep.todo, SkipPolyTxRetry(r) \/ PutPolyTxThenSend(r)
        PROVE  rows \subseteq rows' /\ retry \subseteq retry' /\ missed \subseteq missed'
    BY <2>2 DEF SkipPolyTxRetry, PutPolyTxThenSend
  <2>3. ASSUME NEW r \in dep.item, DeletePolyTxRetry(r)
        PROVE  \A e \in Event : Settled(e) => Settled(e)'
    BY <2>3 DEF DeletePolyTxRetry, Moved
  <2> QED
    BY <1>1, <1>3, <2>1, <2>2, <2>3 DEF DepositStep
<1>4. CASE NewBlock \/ Crash
  BY <1>1, <1>4 DEF NewBlock, Crash, tables
<1>5. CASE \E e \in Event : AcceptToken(e)
  BY <1>1, <1>5 DEF AcceptToken, tables
<1>6. CASE \E k \in changes : ChangeBookKeeperRuns(k)
  BY <1>1, <1>6 DEF ChangeBookKeeperRuns, tables
<1> QED
  BY <1>2, <1>3, <1>4, <1>5, <1>6 DEF Next

\* So do those of a block.
LEMMA BlockStaysSettled ==
  ASSUME NEW h \in Height, \A e \in Event : Settled(e) => Settled(e)',
         SettledBlock(h)
  PROVE  SettledBlock(h)'
<1>1. \A i \in DOMAIN Block[h] : Block[h][i] \in Event
  BY Blocks
<1> QED
  BY <1>1 DEF SettledBlock

-----------------------------------------------------------------------------
(***************************************************************************)
(* The heights behind MonitorChain.                                        *)
(***************************************************************************)
\* Initially there are none with transfers.
LEMMA InitBehind == Init => Behind /\ AtHand /\ Moved
<1> SUFFICES ASSUME Init PROVE Behind /\ AtHand /\ Moved
  OBVIOUS
<1>1. ASSUME NEW h \in Height, Passed(h) \/ \E k \in changes : h < k
      PROVE  SettledBlock(h)
  <2>1. h < Start /\ h \in 0..Top
    BY <1>1, Constants DEF Init, Passed, Height
  <2>2. Block[h] = <<>>
    BY <2>1, Constants
  <2> QED
    BY <2>2 DEF SettledBlock
<1>2. AtHand /\ Moved
  BY DEF Init, AtHand, Moved
<1> QED
  BY <1>1, <1>2 DEF Behind

\* A step after which no more heights are behind keeps Behind.
LEMMA NoneMoreBehind ==
  ASSUME Behind, \A e \in Event : Settled(e) => Settled(e)',
         \A h \in Height : (Passed(h) \/ \E k \in changes : h < k)'
                              => Passed(h) \/ \E k \in changes : h < k
  PROVE  Behind'
<1> SUFFICES ASSUME NEW h \in Height, (Passed(h) \/ \E k \in changes : h < k)'
             PROVE  SettledBlock(h)'
  BY DEF Behind, Height
<1>1. SettledBlock(h)
  BY DEF Behind
<1> QED
  BY <1>1, BlockStaysSettled

\* Nor does one that leaves the block at hand, when it is settled.
LEMMA OneMoreBehind ==
  ASSUME TypeOK, Behind, \A e \in Event : Settled(e) => Settled(e)',
         SettledBlock(height),
         \A h \in Height : (Passed(h) \/ \E k \in changes : h < k)'
           => Passed(h) \/ (\E k \in changes : h < k) \/ h = height
  PROVE  Behind'
<1> SUFFICES ASSUME NEW h \in Height, (Passed(h) \/ \E k \in changes : h < k)'
             PROVE  SettledBlock(h)'
  BY DEF Behind, Height
<1>1. SettledBlock(h)
  BY DEF Behind
<1> QED
  BY <1>1, BlockStaysSettled

\* The transfer at hand is settled by a step, and MonitorChain goes on to the
\* next one.
LEMMA OneMoreAtHand ==
  ASSUME TypeOK, AtHand, NEW e \in Event, InHand(e),
         \A x \in Event : Settled(x) => Settled(x)',
         processed' => processed /\ Settled(e)',
         next' = next + 1, pc' = pc, height' = height
  PROVE  AtHand'
<1>1. pc' = "events"
  BY DEF InHand
<1> SUFFICES ASSUME processed', NEW i \in DOMAIN Block[height], i < next + 1
             PROVE  Settled(Block[height][i])'
  BY <1>1 DEF AtHand
<1>2. height \in Height /\ next \in Nat
  BY DEF TypeOK
<1>3. i \in Nat /\ Block[height][i] \in Event
  BY <1>2, Blocks
<1>4. CASE i = next
  BY <1>4 DEF InHand
<1>5. CASE i < next
  BY <1>3, <1>5 DEF AtHand, InHand
<1> QED
  BY <1>2, <1>3, <1>4, <1>5

LEMMA MonitorKeeps ==
  ASSUME IndInv, MonitorStep, \A e \in Event : Settled(e) => Settled(e)'
  PROVE  Behind' /\ AtHand' /\ Moved'
<1> DEFINE Same == UNCHANGED <<height, saved, epoch, changes>>
<1> USE DEF IndInv, starcoin, tables, handling
<1>1. ASSUME Same PROVE Behind'
  BY <1>1, NoneMoreBehind DEF Passed
<1>2. ASSUME pc' \notin {"events", "change", "confirm"} PROVE AtHand'
  BY <1>2 DEF AtHand
<1>3. Moved'
  BY DEF MonitorStep, Moved, ReadPolyHeight, LoopEnds, FindCurEpochStartHeight,
         GetHeader, GetHeaderFails, GetCrossStatesProofFails, PutPolyTxRetry,
         PutPolyTx, Put, NotSaved, HeightHandled, ChangeBookKeeper,
         WaitTransactionConfirm, UpdatePolyHeight
<1>4. height \in Height /\ next \in Nat
  BY DEF TypeOK
<1>5. CASE ReadPolyHeight \/ LoopEnds \/ FindCurEpochStartHeight \/ GetHeaderFails
  <2>1. Same /\ pc' \notin {"events", "change", "confirm"}
    BY <1>5 DEF ReadPolyHeight, LoopEnds, FindCurEpochStartHeight, GetHeaderFails
  <2> QED
    BY <1>1, <1>2, <1>3, <2>1
<1>6. CASE GetHeader
  <2>1. Same /\ pc' = "events" /\ next' = 1
    BY <1>6 DEF GetHeader
  <2>2. \A i \in DOMAIN Block[height] : ~(i < 1)
    BY <1>4, Blocks
  <2>3. AtHand'
    BY <2>1, <2>2 DEF AtHand
  <2> QED
    BY <1>1, <1>3, <2>1, <2>3
<1>7. ASSUME NEW e \in Event, GetCrossStatesProofFails(e)
      PROVE  Behind' /\ AtHand' /\ Moved'
  <2>1. Same /\ next' = next + 1 /\ pc' = pc /\ InHand(e)
    BY <1>7 DEF GetCrossStatesProofFails
  <2>2. processed' => processed /\ Settled(e)'
    BY <1>7 DEF GetCrossStatesProofFails, Settled
  <2> QED
    BY <1>1, <1>3, <2>1, <2>2, OneMoreAtHand
<1>8. ASSUME NEW e \in Event, PutPolyTxRetry(e)
      PROVE  Behind' /\ AtHand' /\ Moved'
  <2>1. Same /\ next' = next + 1 /\ pc' = pc /\ InHand(e)
    BY <1>8 DEF PutPolyTxRetry, Put
  <2>2. processed' =>
          processed /\ [event |-> e, anchor |-> Serialized(anchor)] \in retry'
    BY <1>8 DEF PutPolyTxRetry, Put, NotSaved
  <2>3. processed' => processed /\ Settled(e)'
    BY <2>2 DEF Settled, Recorded
  <2> QED
    BY <1>1, <1>3, <2>1, <2>3, OneMoreAtHand
<1>9. ASSUME NEW e \in Event, PutPolyTx(e)
      PROVE  Behind' /\ AtHand' /\ Moved'
  <2>1. Same /\ next' = next + 1 /\ pc' = pc /\ InHand(e)
    BY <1>9 DEF PutPolyTx, Put
  <2>2. processed' => processed /\ [event |-> e, anchor |-> anchor] \in rows'
    BY <1>9 DEF PutPolyTx, Put, NotSaved
  <2>3. processed' => processed /\ Settled(e)'
    BY <2>2 DEF Settled, Recorded
  <2> QED
    BY <1>1, <1>3, <2>1, <2>3, OneMoreAtHand
<1>10. CASE HeightHandled
  <2>1. CASE ~processed
    BY <1>1, <1>2, <1>3, <1>10, <2>1 DEF HeightHandled
  <2>2. CASE processed
    <3>1. SettledBlock(height)
      BY <1>4, <1>10, <2>2, Blocks DEF HeightHandled, AtHand, SettledBlock
    <3>2. UNCHANGED <<saved, epoch, changes>>
      BY <1>10 DEF HeightHandled
    <3>3. CASE pc' = "change" /\ height' = height
      <4>1. AtHand'
        BY <1>4, <3>1, <3>3, BlockStaysSettled DEF AtHand, SettledBlock
      <4> QED
        BY <1>1, <1>3, <3>2, <3>3, <4>1
    <3>4. CASE pc' = "loop" /\ height' = height + 1
      <4>1. \A h \in Height : h < height' => h < height \/ h = height
        BY <1>4, <3>4 DEF Height
      <4> QED
        BY <1>2, <1>3, <3>1, <3>2, <3>4, <4>1, OneMoreBehind DEF Passed
    <3> QED
      BY <1>10, <2>2, <3>3, <3>4 DEF HeightHandled
  <2> QED
    BY <2>1, <2>2
<1>11. CASE ChangeBookKeeper
  <2>1. SettledBlock(height) /\ UNCHANGED <<height, saved, epoch>>
    BY <1>11 DEF ChangeBookKeeper, AtHand
  <2>2. changes' \subseteq changes \cup {height + 1}
    BY <1>11 DEF ChangeBookKeeper
  <2>3. \A h \in Height : h < height + 1 => h < height \/ h = height
    BY <1>4 DEF Height
  <2>4. Behind'
    BY <2>1, <2>2, <2>3, OneMoreBehind DEF Passed
  <2>5. pc' \in {"confirm", "save"}
    BY <1>11 DEF ChangeBookKeeper
  <2>6. AtHand'
    BY <1>4, <2>1, <2>5, BlockStaysSettled DEF AtHand, SettledBlock
  <2> QED
    BY <1>3, <2>4, <2>6
<1>12. CASE WaitTransactionConfirm
  <2>1. SettledBlock(height) /\ UNCHANGED <<saved, epoch, changes>>
    BY <1>12 DEF WaitTransactionConfirm, AtHand
  <2>2. pc' = "loop" /\ height' = height + 1
    BY <1>12 DEF WaitTransactionConfirm
  <2>3. \A h \in Height : h < height' => h < height \/ h = height
    BY <1>4, <2>2 DEF Height
  <2> QED
    BY <1>2, <1>3, <2>1, <2>2, <2>3, OneMoreBehind DEF Passed
<1>13. CASE UpdatePolyHeight
  <2>1. pc' = "idle" /\ UNCHANGED <<height, epoch, changes>>
    BY <1>13 DEF UpdatePolyHeight
  <2>2. \A h \in Height : h < saved' => h < saved \/ h < height
    BY <1>4, <1>13 DEF UpdatePolyHeight, SavedHeight, Height
  <2> QED
    BY <1>2, <1>3, <2>1, <2>2, NoneMoreBehind DEF Passed
<1> QED
  BY <1>5, <1>6, <1>7, <1>8, <1>9, <1>10, <1>11, <1>12, <1>13 DEF MonitorStep

LEMMA DepositKeeps ==
  ASSUME IndInv, DepositStep, \A e \in Event : Settled(e) => Settled(e)'
  PROVE  Behind' /\ AtHand' /\ Moved'
<1> USE DEF IndInv, starcoin, tables, handling, monitor
<1>1. UNCHANGED <<epoch, changes, saved, pc, height, next, processed>>
  BY DEF DepositStep, GetAllPolyTxRetry, SkipPolyTxRetry, PutPolyTxThenSend,
         DeletePolyTxRetry, RetriesHandled
<1>2. Behind'
  BY <1>1, NoneMoreBehind DEF Passed
<1>3. height \in Height
  BY DEF TypeOK
<1>4. \A i \in DOMAIN Block[height] : Block[height][i] \in Event
  BY <1>3, Blocks
<1>5. AtHand'
  BY <1>1, <1>4 DEF AtHand, SettledBlock
<1>6. Moved'
  <2> USE DEF TypeOK, Depositing
  <2>1. CASE GetAllPolyTxRetry \/ RetriesHandled
    BY <2>1 DEF GetAllPolyTxRetry, RetriesHandled, DepositIdle, Moved
  <2>2. ASSUME NEW r \in dep.todo, SkipPolyTxRetry(r) PROVE Moved'
    <3>1. dep'.item = dep.item /\ rows' = rows
      BY <2>2 DEF SkipPolyTxRetry
    <3> QED
      BY <3>1 DEF Moved
  <2>3. ASSUME NEW r \in dep.todo, PutPolyTxThenSend(r) PROVE Moved'
    BY <2>3 DEF PutPolyTxThenSend, Moved
  <2>4. ASSUME NEW r \in dep.item, DeletePolyTxRetry(r) PROVE Moved'
    <3>1. dep'.item = {}
      BY <2>4 DEF DeletePolyTxRetry
    <3> QED
      BY <3>1 DEF Moved
  <2> QED
    BY <2>1, <2>2, <2>3, <2>4 DEF DepositStep
<1> QED
  BY <1>2, <1>5, <1>6

LEMMA OtherKeep ==
  ASSUME IndInv, \A e \in Event : Settled(e) => Settled(e)',
         \/ NewBlock \/ \E e \in Event : AcceptToken(e)
         \/ \E k \in changes : ChangeBookKeeperRuns(k)
         \/ Crash
  PROVE  Behind' /\ AtHand' /\ Moved'
<1> USE DEF IndInv, starcoin, tables, handling, monitor
<1>1. height \in Height /\ saved \in Nat /\ epoch \in Nat
  BY DEF TypeOK, Height
<1>2. \A i \in DOMAIN Block[height] : Block[height][i] \in Event
  BY <1>1, Blocks
<1>3. ASSUME UNCHANGED <<pc, height, next, processed>> PROVE AtHand'
  BY <1>2, <1>3 DEF AtHand, SettledBlock
<1>4. CASE NewBlock \/ \E e \in Event : AcceptToken(e)
  <2>1. UNCHANGED <<epoch, changes, saved, pc, height, next, processed, dep, rows>>
    BY <1>4 DEF NewBlock, AcceptToken
  <2> QED
    BY <1>3, <2>1, NoneMoreBehind DEF Passed, Moved
<1>5. ASSUME NEW k \in changes, ChangeBookKeeperRuns(k)
      PROVE  Behind' /\ AtHand' /\ Moved'
  <2>1. UNCHANGED <<saved, pc, height, next, processed, dep, rows>>
    BY <1>5 DEF ChangeBookKeeperRuns
  <2>2. changes' \subseteq changes /\ epoch' \in {epoch, k}
    BY <1>5 DEF ChangeBookKeeperRuns
  <2> QED
    BY <1>3, <2>1, <2>2, NoneMoreBehind DEF Passed, Moved
<1>6. CASE Crash
  <2>1. /\ pc' = "idle" /\ dep' = DepositIdle
        /\ UNCHANGED <<epoch, changes, saved, rows>>
    BY <1>6 DEF Crash
  <2>2. height' \in {saved, epoch, 0}
    BY <1>6 DEF Crash, InitHeight
  <2>3. \A h \in Height : h < height' => h < saved \/ h < epoch
    BY <1>1, <2>2 DEF Height
  <2> QED
    BY <2>1, <2>3, NoneMoreBehind DEF Passed, AtHand, Moved, DepositIdle
<1> QED
  BY <1>4, <1>5, <1>6

-----------------------------------------------------------------------------
(***************************************************************************)
(* The theorems.                                                           *)
(***************************************************************************)
LEMMA InitInv == Init => IndInv
<1> SUFFICES ASSUME Init PROVE IndInv
  OBVIOUS
<1>1. isEpoch \in BOOLEAN /\ found \in BOOLEAN /\ processed \in BOOLEAN
  BY Zenon DEF Init
<1>2. dep \in Depositing
  BY DEF Init, Depositing
<1>3. anchor \in Anchor
  BY Constants DEF Init, Anchor, NoHeader
<1>4. TypeOK
  BY <1>1, <1>2, <1>3, Constants DEF Init, TypeOK, Height
<1>5. Bounds
  BY Constants DEF Init, Bounds, Useful
<1> QED
  BY <1>4, <1>5, InitBehind DEF IndInv

LEMMA StepInv == IndInv /\ [Next]_vars => IndInv'
<1> SUFFICES ASSUME IndInv, [Next]_vars PROVE IndInv'
  OBVIOUS
<1>1. CASE Next
  <2>1. \A e \in Event : Settled(e) => Settled(e)'
    BY <1>1, StaysSettled DEF IndInv
  <2>2. CASE MonitorStep
    BY <2>1, <2>2, MonitorTypes, MonitorKeeps DEF IndInv
  <2>3. CASE DepositStep
    BY <2>1, <2>3, DepositTypes, DepositKeeps DEF IndInv
  <2>4. CASE \/ NewBlock \/ \E e \in Event : AcceptToken(e)
             \/ \E k \in changes : ChangeBookKeeperRuns(k)
             \/ Crash
    BY <2>1, <2>4, OtherTypes, OtherKeep DEF IndInv
  <2> QED
    BY <1>1, <2>2, <2>3, <2>4 DEF Next
<1>2. CASE UNCHANGED vars
  BY <1>2 DEF vars, starcoin, tables, monitor, handling, IndInv, TypeOK, Bounds,
              Behind, Passed, SettledBlock, Settled, Recorded, AtHand, Moved
<1> QED
  BY <1>1, <1>2

\* The invariant of the scan: what is behind MonitorChain, or will be after a
\* restart, is settled.
THEOREM ScanInvariance == Spec => []IndInv
  BY InitInv, StepInv, PTL DEF Spec

\* Every variable keeps its type: MonitorChain does not pass the tip of Poly
\* and the height it saves does not wrap at 0.
THEOREM ScanTypes == Spec => []TypeOK
<1>1. IndInv => TypeOK
  BY DEF IndInv
<1> QED
  BY <1>1, ScanInvariance, PTL

\* No transfer of a height that will not be handled again is missing from the
\* tables, but for those whose proof could not be had.
THEOREM NoTransferMissed == Spec => []NothingMissed
<1>1. IndInv => NothingMissed
  BY DEF IndInv, Behind, SettledBlock, Settled, NothingMissed
<1> QED
  BY <1>1, ScanInvariance, PTL

-----------------------------------------------------------------------------
(***************************************************************************)
(* The scan implements TransferIntake.                                     *)
(***************************************************************************)
\* What MonitorDeposit has listed is still in poly_tx_retry, where a transfer
\* has one row: deleting it by its key takes no other from the list.
Queued ==
  /\ \A x, y \in retry : x.event = y.event => x = y
  /\ dep.todo \cup dep.item \subseteq retry
  /\ dep.todo \cap dep.item = {}

bar == <<accepting, InTable(retry) \ InTable(rows), InTable(rows), missed,
         {h \in Height : Passed(h)}>>

LEMMA QueuedStep ==
  ASSUME TypeOK, Queued, [Next]_vars
  PROVE  Queued'
<1> USE DEF starcoin, tables, handling, monitor
<1>1. ASSUME UNCHANGED <<retry, dep>> PROVE Queued'
  BY <1>1 DEF Queued
<1>2. ASSUME NEW e \in Event, PutPolyTxRetry(e) PROVE Queued'
  <2>1. UNCHANGED dep
    BY <1>2 DEF PutPolyTxRetry
  <2>2. CASE UNCHANGED retry
    BY <1>1, <2>1, <2>2
  <2>3. ASSUME NEW r, CanPut(r, retry), retry' = retry \cup {r} PROVE Queued'
    <3>1. r \in retry \/ \A x \in retry : x.event # r.event
      BY <2>3 DEF CanPut, Duplicate
    <3> QED
      BY <2>1, <2>3, <3>1 DEF Queued
  <2> QED
    BY <1>2, <2>2, <2>3 DEF PutPolyTxRetry, Put, NotSaved
<1>3. CASE MonitorStep
  <2>1. \/ \E e \in Event : PutPolyTxRetry(e)
        \/ UNCHANGED <<retry, dep>>
    BY <1>3 DEF MonitorStep, ReadPolyHeight, LoopEnds, FindCurEpochStartHeight,
                GetHeader, GetHeaderFails, GetCrossStatesProofFails, PutPolyTx,
                HeightHandled, ChangeBookKeeper, WaitTransactionConfirm,
                UpdatePolyHeight
  <2> QED
    BY <1>1, <1>2, <2>1
<1>4. CASE DepositStep
  <2> USE DEF TypeOK, Depositing
  <2>1. CASE GetAllPolyTxRetry \/ RetriesHandled
    BY <2>1 DEF GetAllPolyTxRetry, RetriesHandled, DepositIdle, Queued
  <2>2. ASSUME NEW r \in dep.todo, SkipPolyTxRetry(r) PROVE Queued'
    <3>1. dep'.todo = dep.todo \ {r} /\ dep'.item = dep.item /\ retry' = retry
      BY <2>2 DEF SkipPolyTxRetry
    <3> QED
      BY <3>1 DEF Queued
  <2>3. ASSUME NEW r \in dep.todo, PutPolyTxThenSend(r) PROVE Queued'
    <3>1. dep'.todo = dep.todo \ {r} /\ dep'.item = {r} /\ retry' = retry
      BY <2>3 DEF PutPolyTxThenSend
    <3> QED
      BY <3>1 DEF Queued
  <2>4. ASSUME NEW r \in dep.item, DeletePolyTxRetry(r) PROVE Queued'
    <3>1. dep'.todo = dep.todo /\ dep'.item = {}
      BY <2>4 DEF DeletePolyTxRetry
    <3>2. retry' = retry \/ retry' = {x \in retry : x.event # r.event}
      BY <2>4 DEF DeletePolyTxRetry
    <3>3. \A x \in dep.todo : x.event # r.event
      BY DEF Queued
    <3> QED
      BY <3>1, <3>2, <3>3 DEF Queued
  <2> QED
    BY <1>4, <2>1, <2>2, <2>3, <2>4 DEF DepositStep
<1>5. CASE \/ NewBlock \/ \E e \in Event : AcceptToken(e)
           \/ \E k \in changes : ChangeBookKeeperRuns(k)
           \/ UNCHANGED vars
  BY <1>1, <1>5 DEF NewBlock, AcceptToken, ChangeBookKeeperRuns, vars
<1>6. CASE Crash
  BY <1>6 DEF Crash, DepositIdle, Queued
<1> QED
  BY <1>3, <1>4, <1>5, <1>6 DEF Next

\* A step that leaves the tables alone may pass heights, all of them settled.
LEMMA ProceedIntake ==
  ASSUME IndInv', UNCHANGED <<accepting, rows, retry, missed>>
  PROVE  Intake!Proceed
<1>1. ASSUME NEW h \in Height, Passed(h)' PROVE Intake!Left(h) = {}
  <2>1. SettledBlock(h)'
    BY <1>1 DEF IndInv, Behind, Height
  <2>2. \A i \in DOMAIN Block[h] : Settled(Block[h][i])
    BY <2>1 DEF SettledBlock, Settled, Recorded
  <2> QED
    BY <2>2 DEF Intake!Left, Settled, Recorded, InTable
<1>2. {h \in Height : Passed(h)}' = {h \in Height : Passed(h)'}
  BY DEF Height
<1> QED
  BY <1>1, <1>2 DEF Intake!Proceed, Intake!transfers, InTable

\* Steps that pass no height.
LEMMA SamePassed ==
  ASSUME UNCHANGED <<height, saved, epoch>>
  PROVE  {h \in Height : Passed(h)}' = {h \in Height : Passed(h)}
BY DEF Height, Passed

\* A row is put in poly_tx, by either goroutine.
LEMMA CommitIntake ==
  ASSUME NEW r, rows' = rows \cup {r}, r.event \in accepting,
         CheckFee => r \in retry,
         UNCHANGED <<accepting, retry, missed, height, saved, epoch>>
  PROVE  Intake!Commit(r.event) \/ UNCHANGED bar
<1>1. InTable(rows)' = InTable(rows) \cup {r.event} /\ InTable(retry)' = InTable(retry)
  BY DEF InTable
<1>2. {h \in Height : Passed(h)}' = {h \in Height : Passed(h)}
  BY SamePassed
<1>3. CASE r.event \in InTable(rows)
  BY <1>1, <1>2, <1>3 DEF bar
<1>4. CASE r.event \notin InTable(rows)
  <2>1. CheckFee => r.event \in InTable(retry) \ InTable(rows)
    BY <1>4 DEF InTable
  <2> QED
    BY <1>1, <1>2, <1>4, <2>1 DEF Intake!Commit
<1> QED
  BY <1>3, <1>4

\* A row is put in poly_tx_retry.
LEMMA PutOffIntake ==
  ASSUME NEW r, retry' = retry \cup {r},
         UNCHANGED <<accepting, rows, missed, height, saved, epoch>>
  PROVE  Intake!PutOff(r.event) \/ UNCHANGED bar
<1>1. InTable(retry)' = InTable(retry) \cup {r.event} /\ InTable(rows)' = InTable(rows)
  BY DEF InTable
<1>2. {h \in Height : Passed(h)}' = {h \in Height : Passed(h)}
  BY SamePassed
<1>3. CASE r.event \in InTable(rows)
  BY <1>1, <1>2, <1>3 DEF bar
<1>4. CASE r.event \notin InTable(rows)
  BY <1>1, <1>2, <1>4 DEF Intake!PutOff
<1> QED
  BY <1>3, <1>4

LEMMA MonitorIntake ==
  ASSUME IndInv, IndInv', MonitorStep
  PROVE  Intake!Next \/ UNCHANGED bar
<1> USE DEF starcoin, tables, handling
<1>1. ASSUME UNCHANGED <<accepting, rows, retry, missed>> PROVE Intake!Next
  BY <1>1, ProceedIntake DEF Intake!Next
<1>2. ASSUME NEW e \in Event, GetCrossStatesProofFails(e) PROVE Intake!Next
  <2>1. /\ missed' = missed \cup {e}
        /\ UNCHANGED <<accepting, rows, retry, height, saved, epoch>>
    BY <1>2 DEF GetCrossStatesProofFails
  <2>2. {h \in Height : Passed(h)}' = {h \in Height : Passed(h)}
    BY <2>1, SamePassed
  <2>3. Intake!Skip(e)
    BY <2>1, <2>2 DEF Intake!Skip, InTable
  <2> QED
    BY <2>3 DEF Intake!Next
<1>3. ASSUME NEW e \in Event, PutPolyTxRetry(e)
      PROVE  Intake!Next \/ UNCHANGED bar
  <2> DEFINE r == [event |-> e, anchor |-> Serialized(anchor)]
  <2>1. /\ retry' = retry \cup {r} \/ retry' = retry
        /\ UNCHANGED <<accepting, rows, missed, height, saved, epoch>>
    BY <1>3 DEF PutPolyTxRetry, Put, NotSaved
  <2>2. r.event = e
    OBVIOUS
  <2> HIDE DEF r
  <2>3. CASE retry' = retry \cup {r}
    BY <2>1, <2>2, <2>3, PutOffIntake DEF Intake!Next
  <2>4. CASE retry' = retry
    BY <1>1, <2>1, <2>4
  <2> QED
    BY <2>1, <2>3, <2>4
<1>4. ASSUME NEW e \in Event, PutPolyTx(e)
      PROVE  Intake!Next \/ UNCHANGED bar
  <2> DEFINE r == [event |-> e, anchor |-> anchor]
  <2>1. /\ rows' = rows \cup {r} \/ rows' = rows
        /\ ~CheckFee /\ e \in accepting
        /\ UNCHANGED <<accepting, retry, missed, height, saved, epoch>>
    BY <1>4 DEF PutPolyTx, Put, NotSaved
  <2>2. r.event = e
    OBVIOUS
  <2> HIDE DEF r
  <2>3. CASE rows' = rows \cup {r}
    BY <2>1, <2>2, <2>3, CommitIntake DEF Intake!Next
  <2>4. CASE rows' = rows
    BY <1>1, <2>1, <2>4
  <2> QED
    BY <2>1, <2>3, <2>4
<1>5. CASE \/ ReadPolyHeight \/ LoopEnds \/ FindCurEpochStartHeight
           \/ GetHeader \/ GetHeaderFails \/ HeightHandled
           \/ ChangeBookKeeper \/ WaitTransactionConfirm \/ UpdatePolyHeight
  BY <1>1, <1>5 DEF ReadPolyHeight, LoopEnds, FindCurEpochStartHeight, GetHeader,
                    GetHeaderFails, HeightHandled, ChangeBookKeeper,
                    WaitTransactionConfirm, UpdatePolyHeight
<1> QED
  BY <1>2, <1>3, <1>4, <1>5 DEF MonitorStep

LEMMA DepositIntake ==
  ASSUME IndInv, IndInv', Queued, DepositStep
  PROVE  Intake!Next \/ UNCHANGED bar
<1> USE DEF starcoin, tables, handling, monitor
<1>1. ASSUME UNCHANGED <<accepting, rows, retry, missed>> PROVE Intake!Next
  BY <1>1, ProceedIntake DEF Intake!Next
<1>2. CASE \/ GetAllPolyTxRetry \/ RetriesHandled
           \/ \E r \in dep.todo : SkipPolyTxRetry(r)
  BY <1>1, <1>2 DEF GetAllPolyTxRetry, RetriesHandled, SkipPolyTxRetry
<1>3. ASSUME NEW r \in dep.todo, PutPolyTxThenSend(r)
      PROVE  Intake!Next \/ UNCHANGED bar
  <2>1. /\ rows' = rows \cup {r} /\ r.event \in accepting
        /\ UNCHANGED <<accepting, retry, missed, height, saved, epoch>>
    BY <1>3 DEF PutPolyTxThenSend, Accepts
  <2>2. r \in retry /\ r.event \in Event
    BY DEF Queued, IndInv, TypeOK, Row
  <2> QED
    BY <2>1, <2>2, CommitIntake DEF Intake!Next
<1>4. ASSUME NEW r \in dep.item, DeletePolyTxRetry(r)
      PROVE  Intake!Next \/ UNCHANGED bar
  <2>1. /\ retry' = {x \in retry : x.event # r.event} \/ retry' = retry
        /\ UNCHANGED <<accepting, rows, missed, height, saved, epoch>>
    BY <1>4 DEF DeletePolyTxRetry
  <2>2. CASE retry' = {x \in retry : x.event # r.event}
    <3>1. r.event \in InTable(rows)
      BY DEF IndInv, Moved, InTable
    <3>2. /\ InTable(retry)' = InTable(retry) \ {r.event}
          /\ InTable(rows)' = InTable(rows)
      BY <2>1, <2>2 DEF InTable
    <3>3. {h \in Height : Passed(h)}' = {h \in Height : Passed(h)}
      BY <2>1, SamePassed
    <3> QED
      BY <2>1, <3>1, <3>2, <3>3 DEF bar
  <2>3. CASE retry' = retry
    BY <1>1, <2>1, <2>3
  <2> QED
    BY <2>1, <2>2, <2>3
<1> QED
  BY <1>2, <1>3, <1>4 DEF DepositStep

\* The scan implements TransferIntake: its steps, those of the two chains and
\* a restart make a step of it or none.
THEOREM ScanImplementsIntake == Spec => ImplementsIntake
<1>1. Init => Intake!Init /\ Queued
  <2> SUFFICES ASSUME Init PROVE Intake!Init /\ Queued
    OBVIOUS
  <2>1. accepting \subseteq Event /\ rows = {} /\ retry = {} /\ missed = {}
    BY DEF Init
  <2>2. ASSUME NEW h \in Height, Passed(h) PROVE Intake!Left(h) = {}
    <3>1. SettledBlock(h)
      BY <2>2, InitBehind DEF Behind
    <3> QED
      BY <3>1 DEF SettledBlock, Settled, Recorded, Intake!Left, InTable
  <2> QED
    BY <2>1, <2>2 DEF Intake!Init, InTable, Init, Queued
<1>2. IndInv /\ Queued /\ [Next]_vars => Queued'
  BY QueuedStep DEF IndInv
<1>3. ASSUME IndInv, IndInv', Queued, [Next]_vars
      PROVE  Intake!Next \/ UNCHANGED bar
  <2> USE DEF starcoin, tables, handling, monitor
  <2>1. CASE MonitorStep
    BY <1>3, <2>1, MonitorIntake
  <2>2. CASE DepositStep
    BY <1>3, <2>2, DepositIntake
  <2>3. ASSUME NEW e \in Event, AcceptToken(e) PROVE Intake!Next
    <3>1. /\ accepting' = accepting \cup {e}
          /\ UNCHANGED <<rows, retry, missed, height, saved, epoch>>
      BY <2>3 DEF AcceptToken
    <3>2. {h \in Height : Passed(h)}' = {h \in Height : Passed(h)}
      BY <3>1, SamePassed
    <3>3. Intake!Accept(e)
      BY <3>1, <3>2 DEF Intake!Accept, Intake!transfers, InTable
    <3> QED
      BY <3>3 DEF Intake!Next
  <2>4. CASE \/ NewBlock \/ \E k \in changes : ChangeBookKeeperRuns(k)
             \/ Crash \/ UNCHANGED vars
    <3>1. UNCHANGED <<accepting, rows, retry, missed>>
      BY <2>4 DEF NewBlock, ChangeBookKeeperRuns, Crash, vars
    <3> QED
      BY <1>3, <3>1, ProceedIntake DEF Intake!Next
  <2> QED
    BY <1>3, <2>1, <2>2, <2>3, <2>4 DEF Next
<1>4. UNCHANGED bar
        => UNCHANGED <<accepting, Intake!transfers, {h \in Height : Passed(h)}>>
  BY DEF bar, Intake!transfers
<1> QED
  BY <1>1, <1>2, <1>3, <1>4, ScanInvariance, PTL
     DEF Spec, ImplementsIntake, Intake!Spec
=============================================================================
