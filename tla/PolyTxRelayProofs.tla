------------------------- MODULE PolyTxRelayProofs -------------------------
(***************************************************************************)
(* Proofs about PolyTxRelay, for every set of transactions and goroutines  *)
(* and every value of the limits.                                          *)
(***************************************************************************)
EXTENDS PolyTxRelay, TLAPS

-----------------------------------------------------------------------------
(***************************************************************************)
(* The inductive invariant.                                                *)
(***************************************************************************)

\* A row exists iff it has a status; a new row has not been sent.
RowInv ==
  \A t \in Tx : /\ row[t].status = "none" <=> row[t].idx = 0
                /\ row[t].status = "N" => row[t].retry = 0

\* Indexes have no gap.
Dense ==
  \A t \in Tx : \A i \in 1..row[t].idx : \E u \in Tx : row[u].idx = i

\* What a putter has read is the table as it was, and only rows with the index
\* it wants or a greater one can have come since.
PutInv ==
  \A x \in puts :
    /\ x.idx # 0
    /\ x.base = {u \in Tx : Saved(u) /\ row[u].idx < x.idx}
    /\ \A i \in 1..(x.idx - 1) : \E u \in Tx : row[u].idx = i
    /\ x.stage = "saved" => Saved(x.tx) /\ row[x.tx].base = x.base

\* A snapshot may be stale, but not in its index and its proof.
SnapOK(s) ==
  /\ Saved(s.tx)
  /\ s.row.idx = row[s.tx].idx
  /\ s.row.base = row[s.tx].base

SnapInv ==
  /\ \A s \in failedSnap : SnapOK(s) /\ s.row.status # "D"
  /\ \A s \in tickSnaps  : SnapOK(s) /\ s.row.status \in {"T", "F"}
  /\ \A s \in saves      : SnapOK(s)

\* The row MonitorFailedPolyTx has read can still be sent once more, or it
\* will refuse to be.
FailedInv ==
  \A s \in failedSnap :
    s.row.status # "N" =>
      /\ row[s.tx].status # "N"
      /\ row[s.tx].status = "D" \/ row[s.tx].retry < MaxRetry

\* Jobs and submitted transactions carry the proof of their row.
JobInv  == \A j \in jobs : Saved(j.tx) /\ j.base = row[j.tx].base
SentInv == \A a \in sent : /\ Saved(a.tx)
                           /\ a.base = row[a.tx].base
                           /\ a.fate = "executed" => a.tx \in chain

\* Rows are marked from the index of an executed one; what is about to be
\* marked has been executed.
MarkInv == \A i \in marks : \E t \in chain : row[t].idx = i
SaveInv == \A s \in saves : s.tx \in chain

Structure == RowInv /\ ProofChain /\ Dense /\ PutInv /\ SnapInv /\ FailedInv
             /\ JobInv /\ SentInv
Execution == InOrder /\ MarkInv /\ SaveInv /\ ProcessedSound

IndInv == TypeOK /\ Structure /\ Execution

-----------------------------------------------------------------------------
(***************************************************************************)
(* What the statements of the database do to the table.                    *)
(***************************************************************************)

\* A step that inserts no row: indexes and proofs stay, no row becomes new
\* again or leaves D.
RowStep ==
  /\ row' \in [Tx -> Row]
  /\ \A t \in Tx :
       /\ row'[t].idx = row[t].idx
       /\ row'[t].base = row[t].base
       /\ row'[t].status = "none" <=> row[t].status = "none"
       /\ row'[t].status = "N" => row[t].status = "N" /\ row'[t].retry = row[t].retry
       /\ row[t].status = "D" => row'[t].status = "D"

\* ... and it gives no row but a new one another retry.
KeepsRetry ==
  \A t \in Tx : \/ row'[t].status = "D"
                \/ row'[t].retry = row[t].retry
                \/ row[t].status = "N"

\* Only the rows of S become processed.
Processes(S) ==
  \A t \in Tx : row'[t].status = "D" => row[t].status = "D" \/ t \in S

\* SetPolyTxStatus leaves the indexes, the proofs, the retries and the
\* processed rows of the table as they are.
LEMMA SetStatusStep ==
  ASSUME TypeOK, RowInv, NEW t \in Tx, Saved(t),
         NEW old \in Status \ {"D"}, NEW new \in {"UE", "F", "T"},
         SetPolyTxStatus(t, old, new)
  PROVE  RowStep /\ KeepsRetry /\ Processes({})
<1>1. CASE row[t].status = old
  <2>1. row' = [row EXCEPT ![t] = [row[t] EXCEPT !.status = new, !.stale = FALSE]]
    BY <1>1 DEF SetPolyTxStatus
  <2>2. row'[t] = [row[t] EXCEPT !.status = new, !.stale = FALSE]
    BY <2>1 DEF TypeOK
  <2>3. row'[t] \in Row
    <3>1. row[t] \in Row
      BY DEF TypeOK
    <3>2. new \in Status
      BY DEF Status
    <3> QED
      BY <2>2, <3>1, <3>2 DEF Row
  <2>4. \A u \in Tx : u # t => row'[u] = row[u]
    BY <2>1 DEF TypeOK
  <2>5. row' \in [Tx -> Row]
    BY <2>1, <2>3, <2>2 DEF TypeOK
  <2>6. row[t].status # "none"
    BY DEF RowInv, Saved
  <2>7. /\ row'[t].idx = row[t].idx /\ row'[t].base = row[t].base
        /\ row'[t].status = new /\ row'[t].retry = row[t].retry
    BY <2>2 DEF TypeOK, Row
  <2> QED
    BY <1>1, <2>4, <2>5, <2>6, <2>7 DEF RowStep, KeepsRetry, Processes
<1>2. CASE row[t].status # old
  BY <1>2 DEF SetPolyTxStatus, RowStep, KeepsRetry, Processes, TypeOK
<1> QED BY <1>1, <1>2

\* SetPolyTxStatusProcessed does so too, and marks its own row only.
LEMMA SetProcessedStep ==
  ASSUME TypeOK, RowInv, NEW t \in Tx, Saved(t),
         NEW old \in Status \ {"D"}, NEW hash \in 0..MaxRetry,
         SetPolyTxStatusProcessed(t, old, hash)
  PROVE  RowStep /\ KeepsRetry /\ Processes({t})
<1>1. CASE row[t].status = old
  <2>1. row' = [row EXCEPT ![t] = [row[t] EXCEPT !.status = "D", !.hash = hash,
                                                !.stale = FALSE]]
    BY <1>1 DEF SetPolyTxStatusProcessed
  <2>2. row'[t] = [row[t] EXCEPT !.status = "D", !.hash = hash, !.stale = FALSE]
    BY <2>1 DEF TypeOK
  <2>3. row'[t] \in Row
    <3>1. row[t] \in Row
      BY DEF TypeOK
    <3>2. "D" \in Status
      BY DEF Status
    <3> QED
      BY <2>2, <3>1, <3>2 DEF Row
  <2>4. \A u \in Tx : u # t => row'[u] = row[u]
    BY <2>1 DEF TypeOK
  <2>5. row' \in [Tx -> Row]
    BY <2>1, <2>3, <2>2 DEF TypeOK
  <2>6. row[t].status # "none"
    BY DEF RowInv, Saved
  <2>7. /\ row'[t].idx = row[t].idx /\ row'[t].base = row[t].base
        /\ row'[t].status = "D" /\ row'[t].retry = row[t].retry
    BY <2>2 DEF TypeOK, Row
  <2> QED
    BY <1>1, <2>4, <2>5, <2>6, <2>7 DEF RowStep, KeepsRetry, Processes
<1>2. CASE row[t].status # old
  BY <1>2 DEF SetPolyTxStatusProcessed, RowStep, KeepsRetry, Processes, TypeOK
<1> QED BY <1>1, <1>2

\* Taking a row to send it marks no row, needs a retry that is left, and
\* queues a job with the proof of the row.
LEMMA SendStep ==
  ASSUME TypeOK, RowInv, JobInv, NEW t \in Tx, Saved(t), NEW old \in Status,
         row[t].status = old /\ old # "D" => row[t].retry < MaxRetry,
         SendPolyTx(t, old, row[t].base)
  PROVE  /\ RowStep /\ Processes({})
         /\ old = "N" => KeepsRetry
         /\ jobs' \in SUBSET Job
         /\ \A j \in jobs' : j \in jobs \/ (j.tx = t /\ j.base = row[t].base)
<1>1. CASE CanSetProcessing(t, old)
  <2> DEFINE job == [tx |-> t, n |-> row[t].retry + 1, base |-> row[t].base,
                     stage |-> "queued"]
  <2>1. /\ row' = [row EXCEPT ![t] = [row[t] EXCEPT !.status = "P", !.hash = 0,
                             !.retry = row[t].retry + 1, !.stale = FALSE]]
        /\ jobs' = jobs \cup {job}
    BY <1>1 DEF SendPolyTx
  <2>2. row'[t] = [row[t] EXCEPT !.status = "P", !.hash = 0,
                             !.retry = row[t].retry + 1, !.stale = FALSE]
    BY <2>1 DEF TypeOK
  <2>3. row[t].status = old /\ old # "D" /\ row[t].retry < MaxRetry
    BY <1>1 DEF CanSetProcessing
  <2>4. /\ row[t] \in Row /\ 0 \in 0..MaxRetry
        /\ row[t].retry + 1 \in 1..MaxRetry /\ row[t].retry + 1 \in 0..MaxRetry
    BY <2>3, ConstantsAssumption DEF TypeOK, Row
  <2> DEFINE next == row[t].retry + 1
  <2>10. next \in 0..MaxRetry /\ row'[t] = [row[t] EXCEPT !.status = "P",
                         !.hash = 0, !.retry = next, !.stale = FALSE]
    BY <2>2, <2>4
  <2>5. row'[t] \in Row
    <3> HIDE DEF next
    <3> QED BY <2>10, <2>4 DEF Row, Status
  <2>6. \A u \in Tx : u # t => row'[u] = row[u]
    BY <2>1 DEF TypeOK
  <2>7. row' \in [Tx -> Row]
    BY <2>1, <2>2, <2>5 DEF TypeOK
  <2>8. row[t].status # "none"
    BY DEF RowInv, Saved
  <2>9. /\ row'[t].idx = row[t].idx /\ row'[t].base = row[t].base
        /\ row'[t].status = "P"
    BY <2>2, <2>4 DEF Row
  <2>11. job \in Job
    BY <2>4 DEF Job, Row
  <2>12. jobs' \in SUBSET Job
    BY <2>1, <2>11 DEF TypeOK
  <2> QED
    BY <2>1, <2>3, <2>6, <2>7, <2>8, <2>9, <2>12
    DEF RowStep, KeepsRetry, Processes
<1>2. CASE ~CanSetProcessing(t, old)
  BY <1>2 DEF SendPolyTx, RowStep, KeepsRetry, Processes, TypeOK
<1> QED BY <1>1, <1>2

-----------------------------------------------------------------------------
(***************************************************************************)
(* A step that inserts no row keeps the invariant, if what the goroutines  *)
(* hold after it is sound with respect to the table before it.             *)
(***************************************************************************)
\* A snapshot that is right about index and proof stays so.
LEMMA RowStepFrame ==
  ASSUME RowStep, TypeOK
  PROVE  /\ \A t \in Tx : Saved(t)' <=> Saved(t)
         /\ \A s \in Snap : SnapOK(s) => SnapOK(s)'
BY DEF RowStep, Saved, SnapOK, Snap, TypeOK, Row

\* MonitorFailedPolyTx's row can still be sent while no other goroutine
\* uses up its retries.
LEMMA FailedFrame ==
  ASSUME TypeOK, FailedInv, RowStep, KeepsRetry, failedSnap' \subseteq failedSnap
  PROVE  FailedInv'
<1> SUFFICES ASSUME NEW s \in failedSnap', s.row.status # "N"
             PROVE  /\ row'[s.tx].status # "N"
                    /\ row'[s.tx].status = "D" \/ row'[s.tx].retry < MaxRetry
  BY DEF FailedInv
<1>1. s \in failedSnap /\ s.tx \in Tx
  BY DEF TypeOK, Snap
<1>2. /\ row[s.tx].status # "N"
      /\ row[s.tx].status = "D" \/ row[s.tx].retry < MaxRetry
  BY <1>1 DEF FailedInv
<1> QED BY <1>1, <1>2 DEF RowStep, KeepsRetry

\* A row step keeps the table in shape.
LEMMA StructureFrame ==
  ASSUME TypeOK, TypeOK', Structure, RowStep,
         puts' \subseteq puts,
         FailedInv',
         \A s \in failedSnap' : SnapOK(s) /\ s.row.status # "D",
         \A s \in tickSnaps' : SnapOK(s) /\ s.row.status \in {"T", "F"},
         \A s \in saves' : SnapOK(s),
         \A j \in jobs' : Saved(j.tx) /\ j.base = row[j.tx].base,
         \A a \in sent' : /\ Saved(a.tx) /\ a.base = row[a.tx].base
                          /\ a.fate = "executed" => a.tx \in chain'
  PROVE  Structure'
<1>1. RowInv'
  BY DEF Structure, RowInv, RowStep, TypeOK, Row
<1>2. \A t \in Tx : /\ Saved(t)' <=> Saved(t)
                    /\ row'[t].idx = row[t].idx /\ row'[t].base = row[t].base
  BY RowStepFrame DEF RowStep
<1>3. ProofChain'
  BY <1>2 DEF Structure, ProofChain
<1>4. Dense'
  BY <1>2 DEF Structure, Dense
<1>5. PutInv'
  <2> SUFFICES ASSUME NEW x \in puts'
               PROVE /\ x.idx # 0
                     /\ x.base = {u \in Tx : Saved(u)' /\ row'[u].idx < x.idx}
                     /\ \A i \in 1..(x.idx - 1) : \E u \in Tx : row'[u].idx = i
                     /\ x.stage = "saved" => Saved(x.tx)' /\ row'[x.tx].base = x.base
    BY DEF PutInv
  <2>1. x \in puts /\ x.tx \in Tx
    BY DEF TypeOK, Pending
  <2> QED BY <1>2, <2>1 DEF Structure, PutInv
<1>6. SnapInv'
  BY RowStepFrame DEF SnapInv, TypeOK
<1>7. JobInv'
  BY <1>2 DEF JobInv, TypeOK, Job
<1>8. SentInv'
  BY <1>2 DEF SentInv, TypeOK, Attempt
<1> QED BY <1>1, <1>3, <1>4, <1>5, <1>6, <1>7, <1>8 DEF Structure

\* A row step that marks only executed rows keeps what is known of the chain.
LEMMA ExecutionFrame ==
  ASSUME TypeOK, TypeOK', Structure, Execution, RowStep, chain' = chain,
         NEW S \in SUBSET chain, Processes(S),
         \A i \in marks' : i \in marks \/ \E t \in chain : row[t].idx = i,
         \A s \in saves' : s.tx \in chain
  PROVE  Execution'
<1>1. \A t \in Tx : /\ Saved(t)' <=> Saved(t)
                    /\ row'[t].idx = row[t].idx
  BY RowStepFrame DEF RowStep
<1>2. InOrder'
  BY <1>1 DEF Execution, InOrder, TypeOK
<1>3. MarkInv'
  BY <1>1 DEF Execution, MarkInv, InOrder, TypeOK
<1>4. SaveInv'
  BY DEF SaveInv
<1>5. ProcessedSound'
  BY DEF Execution, ProcessedSound, Processes
<1> QED BY <1>2, <1>3, <1>4, <1>5 DEF Execution

-----------------------------------------------------------------------------
(***************************************************************************)
(* The goroutines that save transactions.                                  *)
(***************************************************************************)
\* What PutPolyTx reads before its insertion is the whole table.
LEMMA PutReadStep ==
  ASSUME IndInv, NEW p \in Putter, NEW t \in Tx, PutRead(p, t)
  PROVE  IndInv'
<1> DEFINE Read(i, b) == [by |-> p, tx |-> t, idx |-> i + 1, base |-> b,
                          stage |-> "read"]
<1>1. PICK i \in {0} \cup {row[u].idx : u \in Tx}, b \in SUBSET Tx :
        /\ \/ i = 0 /\ b = {} /\ \A u \in Tx : ~Saved(u)
           \/ \E last \in Tx : /\ Saved(last)
                               /\ \A u \in Tx : row[u].idx <= row[last].idx
                               /\ i = row[last].idx
                               /\ b = row[last].base \cup {last}
        /\ puts' = puts \cup {Read(i, b)}
  BY DEF PutRead, RootAfter
<1>2. i \in Nat
  BY DEF IndInv, TypeOK, Row
<1>3. TypeOK'
  BY <1>1, <1>2 DEF PutRead, IndInv, TypeOK, Pending
<1>4. b = {u \in Tx : Saved(u) /\ row[u].idx < i + 1}
  <2>1. CASE i = 0 /\ b = {} /\ \A u \in Tx : ~Saved(u)
    BY <2>1
  <2>2. CASE \E last \in Tx : /\ Saved(last)
                              /\ \A u \in Tx : row[u].idx <= row[last].idx
                              /\ i = row[last].idx
                              /\ b = row[last].base \cup {last}
    <3>1. PICK last \in Tx : /\ Saved(last)
                             /\ \A u \in Tx : row[u].idx <= row[last].idx
                             /\ i = row[last].idx
                             /\ b = row[last].base \cup {last}
      BY <2>2
    <3>2. /\ row[last].base = {u \in Tx : Saved(u) /\ row[u].idx < i}
          /\ \A u \in Tx : row[u].idx = i => u = last
      BY <3>1 DEF IndInv, Structure, ProofChain
    <3>3. \A u \in Tx : row[u].idx \in Nat
      BY DEF IndInv, TypeOK, Row
    <3> QED BY <1>2, <3>1, <3>2, <3>3
  <2> QED BY <1>1, <2>1, <2>2
<1>5. \A k \in 1..i : \E u \in Tx : row[u].idx = k
  BY <1>1, <1>2 DEF IndInv, Structure, Dense
<1>6. PutInv'
  <2> SUFFICES ASSUME NEW x \in puts'
               PROVE /\ x.idx # 0
                     /\ x.base = {u \in Tx : Saved(u) /\ row[u].idx < x.idx}
                     /\ \A k \in 1..(x.idx - 1) : \E u \in Tx : row[u].idx = k
                     /\ x.stage = "saved" => Saved(x.tx) /\ row[x.tx].base = x.base
    BY DEF PutInv, PutRead, Saved
  <2>1. CASE x \in puts
    BY <2>1 DEF IndInv, Structure, PutInv
  <2>2. CASE x = Read(i, b)
    BY <2>2, <1>2, <1>4, <1>5
  <2> QED BY <1>1, <2>1, <2>2
<1>7. Structure'
  BY <1>6 DEF IndInv, PutRead, Structure, RowInv, ProofChain, Dense, SnapInv,
              SnapOK, FailedInv, JobInv, SentInv, Saved
<1>8. Execution'
  BY DEF IndInv, PutRead, Execution, InOrder, MarkInv, SaveInv, ProcessedSound,
         Saved
<1> QED BY <1>3, <1>7, <1>8 DEF IndInv

\* The insertion is the one step that extends the table: the primary key
\* makes it take the index after the last one, and no other.
LEMMA PutCreateStep ==
  ASSUME IndInv, NEW x \in puts, PutCreate(x)
  PROVE  IndInv'
<1> USE DEF IndInv
<1> DEFINE new == NewRow(x.idx, x.base)
<1>1. /\ x \in Pending /\ x.tx \in Tx /\ x.idx \in Nat \ {0} /\ x.base \in SUBSET Tx
      /\ x.base = {u \in Tx : Saved(u) /\ row[u].idx < x.idx}
      /\ \A k \in 1..(x.idx - 1) : \E u \in Tx : row[u].idx = k
  BY DEF TypeOK, Pending, Structure, PutInv
<1>2. /\ row' = [row EXCEPT ![x.tx] = new]
      /\ row[x.tx].idx = 0
      /\ \A u \in Tx : row[u].idx # x.idx
      /\ puts' = (puts \ {x}) \cup {[x EXCEPT !.stage = "saved"]}
  BY DEF PutCreate, IndexTaken, Saved
<1>3. /\ new \in Row /\ new.idx = x.idx /\ new.base = x.base
      /\ new.status = "N" /\ new.retry = 0
  <2>1. 0 \in 0..MaxRetry
    BY ConstantsAssumption
  <2> QED BY <1>1, <2>1 DEF NewRow, Row, Status
<1>4. /\ row'[x.tx] = new
      /\ \A u \in Tx : u # x.tx => row'[u] = row[u]
      /\ row' \in [Tx -> Row]
  <2> HIDE DEF new
  <2> QED BY <1>1, <1>2, <1>3 DEF TypeOK
<1>5. [x EXCEPT !.stage = "saved"] \in Pending
  BY <1>1 DEF Pending
<1> HIDE DEF new
<1>6. TypeOK'
  BY <1>2, <1>4, <1>5 DEF TypeOK, PutCreate
<1>7. \A u \in Tx : row[u].idx \in Nat /\ row[u].idx < x.idx
  <2>0. \A u \in Tx : row[u].idx \in Nat
    BY DEF TypeOK, Row
  <2> SUFFICES ASSUME NEW u \in Tx, row[u].idx > x.idx
               PROVE  FALSE
    BY <1>1, <1>2, <2>0
  <2>1. row[u].idx \in Nat
    BY <2>0
  <2>2. x.idx \in 1..row[u].idx
    BY <1>1, <2>1
  <2> QED BY <1>2, <2>2 DEF Structure, Dense
<1>8. /\ \A u \in Tx : u # x.tx => (Saved(u)' <=> Saved(u))
      /\ Saved(x.tx)' /\ ~Saved(x.tx)
  BY <1>1, <1>2, <1>3, <1>4 DEF Saved
<1>9. RowInv'
  BY <1>1, <1>3, <1>4 DEF Structure, RowInv
<1>10. ProofChain'
  BY <1>1, <1>3, <1>4, <1>7, <1>8 DEF Structure, ProofChain
<1>11. Dense'
  BY <1>1, <1>2, <1>3, <1>4 DEF Structure, Dense
<1>12. PutInv'
  <2> SUFFICES ASSUME NEW y \in puts'
               PROVE /\ y.idx # 0
                     /\ y.base = {u \in Tx : Saved(u)' /\ row'[u].idx < y.idx}
                     /\ \A k \in 1..(y.idx - 1) : \E u \in Tx : row'[u].idx = k
                     /\ y.stage = "saved" => Saved(y.tx)' /\ row'[y.tx].base = y.base
    BY DEF PutInv
  <2>1. CASE y = [x EXCEPT !.stage = "saved"]
    <3>1. y.idx = x.idx /\ y.base = x.base /\ y.tx = x.tx
      BY <2>1, <1>1 DEF Pending
    <3> QED BY <3>1, <1>1, <1>2, <1>3, <1>4, <1>7, <1>8
  <2>2. CASE y \in puts
    <3>1. /\ y.idx \in Nat \ {0} /\ y.tx \in Tx
          /\ y.base = {u \in Tx : Saved(u) /\ row[u].idx < y.idx}
          /\ \A k \in 1..(y.idx - 1) : \E u \in Tx : row[u].idx = k
          /\ y.stage = "saved" => Saved(y.tx) /\ row[y.tx].base = y.base
      BY <2>2 DEF TypeOK, Pending, Structure, PutInv
    <3>2. ~(x.idx < y.idx)
      BY <3>1, <1>1, <1>2
    <3>3. y.base = {u \in Tx : Saved(u)' /\ row'[u].idx < y.idx}
      BY <3>1, <3>2, <1>3, <1>4, <1>8
    <3>4. \A k \in 1..(y.idx - 1) : \E u \in Tx : row'[u].idx = k
      BY <3>1, <1>1, <1>2, <1>4
    <3> QED BY <3>1, <3>3, <3>4, <1>4, <1>8
  <2> QED BY <1>2, <2>1, <2>2
<1>13. \A s \in Snap : SnapOK(s) => SnapOK(s)'
  BY <1>4, <1>8 DEF SnapOK, Snap
<1>14. SnapInv'
  BY <1>13 DEF Structure, SnapInv, TypeOK, PutCreate
<1>15. FailedInv'
  <2> SUFFICES ASSUME NEW s \in failedSnap
               PROVE  SnapOK(s) /\ row'[s.tx] = row[s.tx]
    BY DEF Structure, FailedInv, PutCreate
  <2> QED BY <1>4, <1>8 DEF Structure, SnapInv, SnapOK, TypeOK, Snap
<1>16. JobInv'
  BY <1>4, <1>8 DEF Structure, JobInv, PutCreate, TypeOK, Job
<1>17. SentInv'
  BY <1>4, <1>8 DEF Structure, SentInv, PutCreate, TypeOK, Attempt
<1>18. InOrder'
  <2> SUFFICES ASSUME NEW t \in chain, NEW u \in Tx
               PROVE  /\ Saved(t)'
                      /\ Saved(u)' /\ row'[u].idx < row'[t].idx => u \in chain
    <3>1. chain' = chain /\ chain \in SUBSET Tx
      BY DEF PutCreate, TypeOK
    <3> QED BY <3>1 DEF InOrder
  <2>1. t \in Tx /\ Saved(t) /\ t # x.tx
    BY <1>8 DEF Execution, InOrder, TypeOK
  <2>2. row'[t].idx \in Nat /\ row'[t].idx < x.idx
    BY <2>1, <1>4, <1>7
  <2>3. CASE u = x.tx
    BY <2>1, <2>2, <2>3, <1>1, <1>3, <1>4, <1>8
  <2>4. CASE u # x.tx
    BY <2>1, <2>4, <1>4, <1>8 DEF Execution, InOrder
  <2> QED BY <2>3, <2>4
<1>19. MarkInv'
  BY <1>4, <1>8 DEF Execution, InOrder, MarkInv, PutCreate, TypeOK
<1>20. SaveInv' /\ ProcessedSound'
  BY <1>3, <1>4 DEF Execution, SaveInv, ProcessedSound, PutCreate
<1> QED BY <1>6, <1>9, <1>10, <1>11, <1>12, <1>14, <1>15, <1>16, <1>17, <1>18,
           <1>19, <1>20 DEF Structure, Execution

\* The first sending of a row, and a duplicate that is dropped.
LEMMA PutSendStep ==
  ASSUME IndInv, NEW x \in puts, PutSend(x) \/ PutDuplicate(x)
  PROVE  IndInv' /\ RowStep
<1> USE DEF IndInv
<1>1. CASE PutDuplicate(x)
  <2>1. TypeOK' /\ RowStep
    BY <1>1 DEF PutDuplicate, TypeOK, RowStep
  <2>2. Structure'
    BY <1>1 DEF PutDuplicate, Structure, RowInv, ProofChain, Dense, PutInv,
                SnapInv, SnapOK, FailedInv, JobInv, SentInv, Saved
  <2>3. Execution'
    BY <1>1 DEF PutDuplicate, Execution, InOrder, MarkInv, SaveInv,
                ProcessedSound, Saved
  <2> QED BY <2>1, <2>2, <2>3
<1>2. CASE PutSend(x)
  <2>1. x.tx \in Tx /\ Saved(x.tx) /\ x.base = row[x.tx].base
    BY <1>2 DEF PutSend, TypeOK, Pending, Structure, PutInv
  <2>2. row[x.tx].status = "N" => row[x.tx].retry < MaxRetry
    BY <2>1, ConstantsAssumption DEF Structure, RowInv
  <2>3. /\ RowStep /\ Processes({}) /\ KeepsRetry
        /\ jobs' \in SUBSET Job
        /\ \A j \in jobs' : j \in jobs \/ (j.tx = x.tx /\ j.base = row[x.tx].base)
    BY <1>2, <2>1, <2>2, SendStep DEF PutSend, Structure, Status
  <2>4. TypeOK'
    BY <1>2, <2>3 DEF PutSend, TypeOK, RowStep
  <2>5. FailedInv'
    BY <1>2, <2>3, FailedFrame DEF PutSend, Structure
  <2>6. Structure'
    BY <1>2, <2>1, <2>3, <2>4, <2>5, StructureFrame
    DEF PutSend, Structure, SnapInv, JobInv, SentInv
  <2>7. Execution'
    BY <1>2, <2>3, <2>4, ExecutionFrame DEF PutSend, Execution, SaveInv
  <2> QED BY <2>3, <2>4, <2>6, <2>7
<1> QED BY <1>1, <1>2

-----------------------------------------------------------------------------
(***************************************************************************)
(* The two monitors.                                                       *)
(***************************************************************************)
\* A snapshot is right about its row when it is taken.
LEMMA SnapOfIsSnap ==
  ASSUME TypeOK, NEW t \in Tx
  PROVE  /\ SnapOf(t) \in Snap /\ SnapOf(t).tx = t /\ SnapOf(t).row = row[t]
         /\ Saved(t) => SnapOK(SnapOf(t))
BY DEF TypeOK, SnapOf, Snap, SnapOK

\* A row is settled as processed only if Starcoin says so.
LEMMA HandleTimedOutStep ==
  ASSUME IndInv, NEW s \in Snap, SnapOK(s), s.row.status # "D",
         HandleTimedOut(s)
  PROVE  /\ RowStep /\ KeepsRetry
         /\ \E S \in SUBSET chain : Processes(S)
         /\ marks' \in SUBSET Nat
         /\ \A i \in marks' : i \in marks \/ \E t \in chain : row[t].idx = i
<1> USE DEF IndInv
<1>1. /\ s.tx \in Tx /\ Saved(s.tx) /\ s.row.status \in Status \ {"D"}
      /\ s.row.hash \in 0..MaxRetry /\ row[s.tx].idx \in Nat
  BY DEF SnapOK, Snap, Row, TypeOK
<1>2. CASE SetPolyTxStatus(s.tx, s.row.status, "UE") /\ UNCHANGED marks
  BY <1>1, <1>2, SetStatusStep DEF Structure, TypeOK
<1>3. CASE SetPolyTxStatus(s.tx, s.row.status, "F") /\ UNCHANGED marks
  BY <1>1, <1>3, SetStatusStep DEF Structure, TypeOK
<1>4. CASE /\ Executed(s.tx, s.row.hash)
           /\ SetPolyTxStatusProcessed(s.tx, s.row.status, s.row.hash)
  <2>1. s.tx \in chain
    BY <1>4 DEF Executed, Structure, SentInv
  <2>2. RowStep /\ KeepsRetry /\ Processes({s.tx})
    BY <1>1, <1>4, SetProcessedStep DEF Structure
  <2>3. marks' = marks \cup {row[s.tx].idx}
    BY <1>4 DEF SetPolyTxStatusProcessed
  <2> QED BY <1>1, <2>1, <2>2, <2>3 DEF TypeOK
<1> QED BY <1>2, <1>3, <1>4 DEF HandleTimedOut

\* A step of MonitorFailedPolyTx, whatever became of the row since it was
\* read.
LEMMA FailedMonitorStep ==
  ASSUME IndInv, FailedStep
  PROVE  IndInv' /\ RowStep
<1> USE DEF IndInv
<1>1. ASSUME NEW t \in Tx, GetFirstFailedPolyTx(t)
      PROVE  IndInv' /\ RowStep
  <2>1. TypeOK' /\ RowStep
    BY <1>1, SnapOfIsSnap DEF GetFirstFailedPolyTx, TypeOK, RowStep
  <2>2. FailedInv'
    BY <1>1, SnapOfIsSnap DEF GetFirstFailedPolyTx, Failed, FailedInv
  <2>3. Structure'
    BY <1>1, <2>1, <2>2, SnapOfIsSnap, StructureFrame
    DEF GetFirstFailedPolyTx, Failed, Structure, SnapInv, JobInv, SentInv
  <2>4. Processes({})
    BY <1>1 DEF GetFirstFailedPolyTx, Processes
  <2>5. Execution'
    BY <1>1, <2>1, <2>4, ExecutionFrame
    DEF GetFirstFailedPolyTx, Execution, SaveInv
  <2> QED BY <2>1, <2>3, <2>5
<1>2. ASSUME NEW s \in failedSnap, HandleFailedPolyTx(s)
      PROVE  IndInv' /\ RowStep
  <2>1. /\ s \in Snap /\ SnapOK(s) /\ s.row.status # "D"
        /\ s.tx \in Tx /\ Saved(s.tx) /\ s.row.status \in Status
        /\ s.row.base = row[s.tx].base
    BY DEF TypeOK, Structure, SnapInv, SnapOK, Snap, Row
  <2>2. FailedInv'
    BY <1>2 DEF HandleFailedPolyTx, FailedInv
  <2>3. CASE HandleTimedOut(s) /\ UNCHANGED jobs
    <3>1. /\ RowStep
          /\ \E S \in SUBSET chain : Processes(S)
          /\ marks' \in SUBSET Nat
          /\ \A i \in marks' : i \in marks \/ \E t \in chain : row[t].idx = i
      BY <2>1, <2>3, HandleTimedOutStep
    <3>2. TypeOK'
      BY <1>2, <2>3, <3>1 DEF HandleFailedPolyTx, TypeOK, RowStep
    <3>3. Structure'
      BY <1>2, <2>2, <2>3, <3>1, <3>2, StructureFrame
      DEF HandleFailedPolyTx, Structure, SnapInv, JobInv, SentInv
    <3>4. Execution'
      BY <1>2, <3>1, <3>2, ExecutionFrame
      DEF HandleFailedPolyTx, Execution, SaveInv
    <3> QED BY <3>1, <3>2, <3>3, <3>4
  <2>4. CASE SendPolyTx(s.tx, s.row.status, s.row.base) /\ UNCHANGED marks
    <3>1. row[s.tx].status = s.row.status => row[s.tx].retry < MaxRetry
      BY <2>1, ConstantsAssumption DEF Structure, RowInv, FailedInv
    <3>2. /\ RowStep /\ Processes({})
          /\ jobs' \in SUBSET Job
          /\ \A j \in jobs' : j \in jobs \/ (j.tx = s.tx /\ j.base = row[s.tx].base)
      BY <2>1, <2>4, <3>1, SendStep DEF Structure
    <3>3. TypeOK'
      BY <1>2, <2>4, <3>2 DEF HandleFailedPolyTx, TypeOK, RowStep
    <3>4. Structure'
      BY <1>2, <2>1, <2>2, <3>2, <3>3, StructureFrame
      DEF HandleFailedPolyTx, Structure, SnapInv, JobInv, SentInv
    <3>5. Execution'
      BY <1>2, <2>4, <3>2, <3>3, ExecutionFrame
      DEF HandleFailedPolyTx, Execution, SaveInv
    <3> QED BY <3>2, <3>3, <3>4, <3>5
  <2> QED BY <1>2, <2>3, <2>4 DEF HandleFailedPolyTx
<1> QED BY <1>1, <1>2 DEF FailedStep

\* A step of the tick that leaves the table alone and reads some rows.
LEMMA TickReads ==
  ASSUME IndInv, UNCHANGED <<row, chain, sent, puts, failedSnap, jobs, marks,
                             saves, crashes>>,
         tick' \in {"list", "smt", "timedOut", "resolve"},
         \A s \in tickSnaps' : \/ s \in tickSnaps
                               \/ \E t \in Tx : /\ s = SnapOf(t)
                                                /\ row[t].status \in {"T", "F"}
  PROVE  IndInv' /\ RowStep
<1> USE DEF IndInv
<1>1. \A s \in tickSnaps' : s \in Snap /\ SnapOK(s) /\ s.row.status \in {"T", "F"}
  <2> SUFFICES ASSUME NEW s \in tickSnaps'
               PROVE  s \in Snap /\ SnapOK(s) /\ s.row.status \in {"T", "F"}
    OBVIOUS
  <2>1. CASE s \in tickSnaps
    BY <2>1 DEF TypeOK, Structure, SnapInv
  <2>2. ASSUME NEW t \in Tx, s = SnapOf(t), row[t].status \in {"T", "F"}
        PROVE  s \in Snap /\ SnapOK(s) /\ s.row.status \in {"T", "F"}
    <3>1. Saved(t)
      BY <2>2 DEF Structure, RowInv, Saved
    <3> QED BY <2>2, <3>1, SnapOfIsSnap
  <2> QED BY <2>1, <2>2
<1>2. TypeOK' /\ RowStep
  BY <1>1 DEF TypeOK, RowStep
<1>3. FailedInv'
  BY DEF Structure, FailedInv
<1>4. Structure'
  BY <1>1, <1>2, <1>3, StructureFrame DEF Structure, SnapInv, JobInv, SentInv
<1>5. Processes({})
  BY DEF Processes
<1>6. Execution'
  BY <1>2, <1>5, ExecutionFrame DEF Execution, SaveInv
<1> QED BY <1>2, <1>4, <1>6

\* A row whose root with itself is the on-chain root has been executed.
LEMMA MatchedIsExecuted ==
  ASSUME NEW s, OnChainSmtRootMatched(s)
  PROVE  s.tx \in chain
BY DEF OnChainSmtRootMatched

\* A step of MonitorTimedOutPolyTx's tick.
LEMMA TimedOutMonitorStep ==
  ASSUME IndInv, TickStep
  PROVE  IndInv' /\ RowStep
<1> USE DEF IndInv
<1>1. CASE GetTimedOutOrFailedPolyTxList
  <2>1. \A s \in tickSnaps' : \E t \in Tx : /\ s = SnapOf(t)
                                            /\ row[t].status \in {"T", "F"}
    BY <1>1 DEF GetTimedOutOrFailedPolyTxList, Limited
  <2> QED BY <1>1, <2>1, TickReads DEF GetTimedOutOrFailedPolyTxList
<1>2. CASE \E t \in Tx : GetFirstTimedOutPolyTx(t)
  BY <1>2, TickReads DEF GetFirstTimedOutPolyTx
<1>3. CASE NoTimedOutPolyTx
  BY <1>3, TickReads DEF NoTimedOutPolyTx
<1>4. ASSUME NEW s \in tickSnaps, HandleTimedOutPolyTx(s)
      PROVE  IndInv' /\ RowStep
  <2>1. s \in Snap /\ SnapOK(s) /\ s.row.status # "D"
    BY DEF TypeOK, Structure, SnapInv
  <2>2. /\ RowStep /\ KeepsRetry
        /\ \E S \in SUBSET chain : Processes(S)
        /\ marks' \in SUBSET Nat
        /\ \A i \in marks' : i \in marks \/ \E t \in chain : row[t].idx = i
    BY <1>4, <2>1, HandleTimedOutStep DEF HandleTimedOutPolyTx
  <2>3. TypeOK'
    BY <1>4, <2>2 DEF HandleTimedOutPolyTx, TypeOK, RowStep
  <2>4. FailedInv'
    BY <1>4, <2>2, FailedFrame DEF HandleTimedOutPolyTx, Structure
  <2>5. Structure'
    BY <1>4, <2>2, <2>3, <2>4, StructureFrame
    DEF HandleTimedOutPolyTx, Structure, SnapInv, JobInv, SentInv
  <2>6. Execution'
    BY <1>4, <2>2, <2>3, ExecutionFrame
    DEF HandleTimedOutPolyTx, Execution, SaveInv
  <2> QED BY <2>2, <2>3, <2>5, <2>6
<1>5. CASE CheckOnChainSmtRoot
  <2>1. CASE UNCHANGED <<row, marks>>
    BY <1>5, <2>1, TickReads DEF CheckOnChainSmtRoot
  <2>2. ASSUME NEW s \in tickSnaps, OnChainSmtRootMatched(s),
               SetPolyTxStatusProcessed(s.tx, s.row.status, s.row.hash)
        PROVE  IndInv' /\ RowStep
    <3>1. /\ s.tx \in chain /\ s.tx \in Tx /\ Saved(s.tx)
          /\ s.row.status \in Status \ {"D"} /\ s.row.hash \in 0..MaxRetry
          /\ row[s.tx].idx \in Nat
      BY <2>2, MatchedIsExecuted
      DEF TypeOK, Structure, SnapInv, SnapOK, Snap, Row, Status
    <3>2. RowStep /\ KeepsRetry /\ Processes({s.tx})
      BY <2>2, <3>1, SetProcessedStep DEF Structure
    <3>3. marks' = marks \cup {row[s.tx].idx}
      BY <2>2 DEF SetPolyTxStatusProcessed
    <3>4. TypeOK'
      BY <1>5, <3>1, <3>2, <3>3 DEF CheckOnChainSmtRoot, TypeOK, RowStep
    <3>5. FailedInv'
      BY <1>5, <3>2, FailedFrame DEF CheckOnChainSmtRoot, Structure
    <3>6. Structure'
      BY <1>5, <3>2, <3>4, <3>5, StructureFrame
      DEF CheckOnChainSmtRoot, Structure, SnapInv, JobInv, SentInv
    <3>7. Execution'
      BY <1>5, <3>1, <3>2, <3>3, <3>4, ExecutionFrame
      DEF CheckOnChainSmtRoot, Execution, SaveInv
    <3> QED BY <3>2, <3>4, <3>6, <3>7
  <2> QED BY <1>5, <2>1, <2>2 DEF CheckOnChainSmtRoot
<1> QED BY <1>1, <1>2, <1>3, <1>4, <1>5 DEF TickStep

-----------------------------------------------------------------------------
(***************************************************************************)
(* The workers.                                                            *)
(***************************************************************************)
\* A job that is moved or ended keeps its transaction and proof.
LEMMA MovedJob ==
  ASSUME TypeOK, JobInv, NEW j \in jobs,
         NEW stage \in {"queued", "submitted", "waiting"},
         MoveJob(j, stage) \/ EndJob(j)
  PROVE  /\ jobs' \in SUBSET Job
         /\ \A k \in jobs' : Saved(k.tx) /\ k.base = row[k.tx].base
<1>1. j \in Job /\ Saved(j.tx) /\ j.base = row[j.tx].base
  BY DEF TypeOK, JobInv
<1> DEFINE moved == [j EXCEPT !.stage = stage]
<1>2. moved \in Job /\ moved.tx = j.tx /\ moved.base = j.base
  BY <1>1 DEF Job
<1>3. \A k \in jobs' : k \in jobs \/ k = moved
  BY DEF MoveJob, EndJob
<1> QED BY <1>1, <1>2, <1>3 DEF TypeOK, JobInv

\* A worker's step that leaves the transactions on Starcoin alone.
LEMMA WorkerFrame ==
  ASSUME IndInv, RowStep, KeepsRetry, NEW S \in SUBSET chain, Processes(S),
         UNCHANGED <<chain, sent, puts, failedSnap, tick, tickSnaps, saves,
                     crashes>>,
         marks' \in SUBSET Nat,
         \A i \in marks' : i \in marks \/ \E t \in chain : row[t].idx = i,
         jobs' \in SUBSET Job,
         \A k \in jobs' : Saved(k.tx) /\ k.base = row[k.tx].base
  PROVE  IndInv'
<1> USE DEF IndInv
<1>1. TypeOK'
  BY DEF TypeOK, RowStep
<1>2. FailedInv'
  BY FailedFrame DEF Structure
<1>3. Structure'
  BY <1>1, <1>2, StructureFrame DEF Structure, SnapInv, JobInv, SentInv
<1>4. Execution'
  BY <1>1, ExecutionFrame DEF Execution, SaveInv
<1> QED BY <1>1, <1>3, <1>4

\* A submitted transaction carries the proof of its row.
LEMMA SubmitStep ==
  ASSUME IndInv, NEW j \in jobs, SubmitTransaction(j)
  PROVE  IndInv' /\ RowStep
<1> USE DEF IndInv
<1> DEFINE new == [tx |-> j.tx, n |-> j.n, base |-> j.base, fate |-> "pending"]
<1>1. /\ j \in Job /\ Saved(j.tx) /\ j.base = row[j.tx].base
      /\ new \in Attempt
  BY DEF TypeOK, Structure, JobInv, Job, Attempt
<1>2. /\ jobs' \in SUBSET Job
      /\ \A k \in jobs' : Saved(k.tx) /\ k.base = row[k.tx].base
  BY MovedJob DEF SubmitTransaction, Structure
<1>3. TypeOK' /\ RowStep
  BY <1>1, <1>2 DEF SubmitTransaction, TypeOK, RowStep
<1>4. FailedInv'
  BY DEF SubmitTransaction, Structure, FailedInv
<1>5. \A a \in sent' : /\ Saved(a.tx) /\ a.base = row[a.tx].base
                       /\ a.fate = "executed" => a.tx \in chain'
  BY <1>1 DEF SubmitTransaction, Structure, SentInv
<1>6. Structure'
  BY <1>2, <1>3, <1>4, <1>5, StructureFrame
  DEF SubmitTransaction, Structure, SnapInv
<1>7. Processes({})
  BY DEF SubmitTransaction, Processes
<1>8. Execution'
  BY <1>3, <1>7, ExecutionFrame DEF SubmitTransaction, Execution, SaveInv
<1> QED BY <1>3, <1>6, <1>8

\* What a worker writes after its submission, even when its row has been sent
\* again in between, marks no row that has not been executed.
LEMMA WorkerDbStep ==
  ASSUME IndInv, NEW j \in jobs,
         \/ SubmitFails(j)
         \/ SetProcessingPolyTxStarcoinTxHash(j)
         \/ WaitTransactionConfirm(j)
  PROVE  IndInv' /\ RowStep
<1> USE DEF IndInv
<1>0. /\ j \in Job /\ j.tx \in Tx /\ j.n \in 0..MaxRetry /\ Saved(j.tx)
      /\ row[j.tx] \in Row /\ row[j.tx].idx \in Nat
  BY DEF TypeOK, Structure, JobInv, Job, Row
<1>1. CASE SubmitFails(j)
  <2>1. RowStep /\ KeepsRetry /\ Processes({})
    BY <1>1 DEF SubmitFails, RowStep, KeepsRetry, Processes, TypeOK
  <2>2. /\ jobs' \in SUBSET Job
        /\ \A k \in jobs' : Saved(k.tx) /\ k.base = row[k.tx].base
    BY <1>1, MovedJob DEF SubmitFails, Structure
  <2> QED BY <1>1, <2>1, <2>2, WorkerFrame DEF SubmitFails, TypeOK
<1>2. CASE SetProcessingPolyTxStarcoinTxHash(j)
  <2>1. RowStep /\ KeepsRetry /\ Processes({})
    <3>1. CASE row' = row
      BY <3>1 DEF RowStep, KeepsRetry, Processes, TypeOK
    <3>2. CASE /\ row[j.tx].status = "P"
               /\ row' = [row EXCEPT ![j.tx] = [row[j.tx] EXCEPT !.hash = j.n,
                                                             !.stale = FALSE]]
      <4>1. /\ row'[j.tx] = [row[j.tx] EXCEPT !.hash = j.n, !.stale = FALSE]
            /\ \A u \in Tx : u # j.tx => row'[u] = row[u]
        BY <1>0, <3>2 DEF TypeOK
      <4>2. /\ row'[j.tx] \in Row
            /\ row'[j.tx].idx = row[j.tx].idx /\ row'[j.tx].base = row[j.tx].base
            /\ row'[j.tx].status = "P" /\ row'[j.tx].retry = row[j.tx].retry
        <5> DEFINE r == row[j.tx]
                   h == j.n
        <5>1. r \in Row /\ h \in 0..MaxRetry /\ r.status = "P"
          BY <1>0, <3>2
        <5>2. row'[j.tx] = [r EXCEPT !.hash = h, !.stale = FALSE]
          BY <4>1
        <5> HIDE DEF r, h
        <5>3. /\ row'[j.tx] \in Row
              /\ row'[j.tx].idx = r.idx /\ row'[j.tx].base = r.base
              /\ row'[j.tx].status = "P" /\ row'[j.tx].retry = r.retry
          BY <5>1, <5>2 DEF Row
        <5> QED BY <5>3 DEF r
      <4>3. row' \in [Tx -> Row]
        BY <3>2, <4>1, <4>2 DEF TypeOK
      <4> QED BY <3>2, <4>1, <4>2, <4>3 DEF RowStep, KeepsRetry, Processes
    <3> QED BY <1>2, <3>1, <3>2 DEF SetProcessingPolyTxStarcoinTxHash
  <2>2. /\ jobs' \in SUBSET Job
        /\ \A k \in jobs' : Saved(k.tx) /\ k.base = row[k.tx].base
    BY <1>2, MovedJob DEF SetProcessingPolyTxStarcoinTxHash, Structure
  <2> QED
    BY <1>2, <2>1, <2>2, WorkerFrame DEF SetProcessingPolyTxStarcoinTxHash, TypeOK
<1>3. CASE WaitTransactionConfirm(j)
  <2>1. /\ jobs' \in SUBSET Job
        /\ \A k \in jobs' : Saved(k.tx) /\ k.base = row[k.tx].base
    BY <1>3, MovedJob DEF WaitTransactionConfirm, Structure
  <2>2. CASE /\ SetPolyTxStatus(j.tx, "P", "F") \/ SetPolyTxStatus(j.tx, "P", "T")
             /\ UNCHANGED marks
    <3>1. RowStep /\ KeepsRetry /\ Processes({})
      BY <1>0, <2>2, SetStatusStep DEF Structure, Status
    <3> QED
      BY <1>3, <2>1, <2>2, <3>1, WorkerFrame DEF WaitTransactionConfirm, TypeOK
  <2>3. CASE "executed" \in FateOf(j) /\ SetPolyTxStatusProcessed(j.tx, "P", j.n)
    <3>1. j.tx \in chain
      BY <2>3 DEF FateOf, Structure, SentInv
    <3>2. RowStep /\ KeepsRetry /\ Processes({j.tx})
      BY <1>0, <2>3, SetProcessedStep DEF Structure, Status
    <3>3. marks' = marks \cup {row[j.tx].idx}
      BY <2>3 DEF SetPolyTxStatusProcessed
    <3> QED
      BY <1>0, <1>3, <2>1, <3>1, <3>2, <3>3, WorkerFrame
      DEF WaitTransactionConfirm, TypeOK
  <2> QED BY <1>3, <2>2, <2>3 DEF WaitTransactionConfirm
<1> QED BY <1>1, <1>2, <1>3

-----------------------------------------------------------------------------
(***************************************************************************)
(* Marking the rows before a processed one.                                *)
(***************************************************************************)
\* Rows before an executed one have been executed, so marking them from
\* whatever was read of them is right.
LEMMA MarksStep ==
  ASSUME IndInv, MarkStep
  PROVE  IndInv' /\ RowStep
<1> USE DEF IndInv
<1>1. ASSUME NEW i \in marks, MarkRead(i)
      PROVE  IndInv' /\ RowStep
  <2>1. PICK L \in SUBSET {t \in Tx : Saved(t) /\ row[t].idx < i} :
          saves' = saves \cup {SnapOf(t) : t \in L}
    BY <1>1 DEF MarkRead, Limited, UnprocessedBefore
  <2>2. \A s \in saves' : s \in saves \/ \E t \in L : s = SnapOf(t)
    BY <2>1
  <2>3. \A s \in saves' : s \in Snap /\ SnapOK(s)
    BY <2>2, SnapOfIsSnap DEF TypeOK, Structure, SnapInv
  <2>4. \A t \in L : t \in chain
    BY DEF Execution, MarkInv, InOrder
  <2>5. \A s \in saves' : s.tx \in chain
    BY <2>2, <2>4, SnapOfIsSnap DEF Execution, SaveInv
  <2>6. TypeOK' /\ RowStep
    BY <1>1, <2>3 DEF MarkRead, TypeOK, RowStep
  <2>7. FailedInv'
    BY <1>1 DEF MarkRead, Structure, FailedInv
  <2>8. Structure'
    BY <1>1, <2>3, <2>6, <2>7, StructureFrame
    DEF MarkRead, Structure, SnapInv, JobInv, SentInv
  <2>9. Processes({})
    BY <1>1 DEF MarkRead, Processes
  <2>10. Execution'
    BY <1>1, <2>5, <2>6, <2>9, ExecutionFrame DEF MarkRead
  <2> QED BY <2>6, <2>8, <2>10
<1>2. ASSUME NEW s \in saves, MarkSave(s)
      PROVE  IndInv' /\ RowStep
  <2>1. /\ s.tx \in Tx /\ s.row \in Row /\ Saved(s.tx) /\ s.tx \in chain
        /\ s.row.idx = row[s.tx].idx /\ s.row.base = row[s.tx].base
    BY DEF TypeOK, Snap, Structure, SnapInv, SnapOK, Execution, SaveInv
  <2>2. /\ row'[s.tx] = [s.row EXCEPT !.status = "D", !.stale = FALSE]
        /\ \A u \in Tx : u # s.tx => row'[u] = row[u]
    BY <1>2, <2>1 DEF MarkSave, TypeOK
  <2>3. /\ row'[s.tx] \in Row /\ row'[s.tx].status = "D"
        /\ row'[s.tx].idx = s.row.idx /\ row'[s.tx].base = s.row.base
    BY <2>1, <2>2 DEF Row, Status
  <2>4. row' \in [Tx -> Row]
    BY <1>2, <2>2, <2>3 DEF MarkSave, TypeOK
  <2>5. row[s.tx].status # "none"
    BY <2>1 DEF Structure, RowInv, Saved
  <2>6. RowStep /\ KeepsRetry /\ Processes({s.tx})
    BY <2>1, <2>2, <2>3, <2>4, <2>5 DEF RowStep, KeepsRetry, Processes
  <2>7. TypeOK'
    BY <1>2, <2>4 DEF MarkSave, TypeOK
  <2>8. FailedInv'
    BY <1>2, <2>6, FailedFrame DEF MarkSave, Structure
  <2>9. Structure'
    BY <1>2, <2>6, <2>7, <2>8, StructureFrame
    DEF MarkSave, Structure, SnapInv, JobInv, SentInv
  <2>10. Execution'
    BY <1>2, <2>1, <2>6, <2>7, ExecutionFrame DEF MarkSave, Execution, SaveInv
  <2> QED BY <2>6, <2>7, <2>9, <2>10
<1> QED BY <1>1, <1>2 DEF MarkStep

-----------------------------------------------------------------------------
(***************************************************************************)
(* Starcoin, time and restarts.                                            *)
(***************************************************************************)

\* Starcoin executes a transaction only against the tree of the rows before
\* it, so whatever it runs keeps the invariant.
LEMMA ChainStep ==
  ASSUME IndInv, NEW a \in sent, ChainRuns(a)
  PROVE  IndInv' /\ RowStep
<1> USE DEF IndInv
<1> DEFINE Ran(fate) == [a EXCEPT !.fate = fate]
<1>1. /\ a \in Attempt /\ a.tx \in Tx /\ Saved(a.tx)
      /\ a.base = {u \in Tx : Saved(u) /\ row[u].idx < row[a.tx].idx}
      /\ a.base = row[a.tx].base
  BY DEF TypeOK, Attempt, Structure, SentInv, ProofChain
<1>2. /\ \A f \in {"executed", "aborted"} :
           /\ Ran(f) \in Attempt /\ Ran(f).tx = a.tx /\ Ran(f).base = a.base
           /\ Ran(f).fate = f
  BY <1>1 DEF Attempt
<1>3. /\ chain' \in SUBSET Tx /\ chain \subseteq chain'
      /\ sent' \in SUBSET Attempt
  BY <1>1, <1>2 DEF ChainRuns, TypeOK
<1>4. TypeOK' /\ RowStep /\ UNCHANGED <<row, goVars, crashes>>
  BY <1>3 DEF ChainRuns, TypeOK, RowStep, goVars
<1>5. \A b \in sent' : /\ Saved(b.tx) /\ b.base = row[b.tx].base
                       /\ b.fate = "executed" => b.tx \in chain'
  <2> SUFFICES ASSUME NEW b \in sent'
               PROVE  /\ Saved(b.tx) /\ b.base = row[b.tx].base
                      /\ b.fate = "executed" => b.tx \in chain'
    OBVIOUS
  <2>1. CASE b \in sent
    BY <1>3, <2>1 DEF Structure, SentInv
  <2>2. CASE b \notin sent
    <3>1. \/ b = Ran("executed") /\ a.tx \in chain'
          \/ b = Ran("aborted")
      BY <2>2 DEF ChainRuns
    <3> QED BY <1>1, <1>2, <3>1
  <2> QED BY <2>1, <2>2
<1>6. FailedInv'
  BY <1>4 DEF Structure, FailedInv, goVars
<1>7. Structure'
  BY <1>4, <1>5, <1>6, StructureFrame DEF Structure, SnapInv, JobInv, goVars
<1>8. InOrder'
  <2>1. CASE chain' = chain
    BY <1>4, <2>1 DEF Execution, InOrder, Saved
  <2>2. CASE a.base = chain /\ chain' = chain \cup {a.tx}
    <3> SUFFICES ASSUME NEW t \in chain'
                 PROVE  /\ Saved(t)
                        /\ \A u \in Tx : Saved(u) /\ row[u].idx < row[t].idx
                                         => u \in chain'
      BY <1>4 DEF InOrder, Saved
    <3> QED BY <1>1, <2>2 DEF Execution, InOrder
  <2> QED BY <2>1, <2>2 DEF ChainRuns
<1>9. MarkInv' /\ SaveInv' /\ ProcessedSound'
  BY <1>3, <1>4 DEF Execution, MarkInv, SaveInv, ProcessedSound, goVars
<1> QED BY <1>4, <1>7, <1>8, <1>9 DEF Execution

\* The age of a row matters to no part of the invariant.
LEMMA TimeStep ==
  ASSUME IndInv, NEW t \in Tx, TimePasses(t)
  PROVE  IndInv' /\ RowStep
<1> USE DEF IndInv
<1>1. /\ row[t] \in Row
      /\ row'[t] = [row[t] EXCEPT !.stale = TRUE]
      /\ \A u \in Tx : u # t => row'[u] = row[u]
  BY DEF TimePasses, TypeOK
<1>2. /\ row'[t] \in Row
      /\ row'[t].idx = row[t].idx /\ row'[t].base = row[t].base
      /\ row'[t].status = row[t].status /\ row'[t].retry = row[t].retry
  BY <1>1 DEF Row
<1>3. row' \in [Tx -> Row]
  BY <1>1, <1>2 DEF TimePasses, TypeOK
<1>4. RowStep /\ KeepsRetry /\ Processes({})
  BY <1>1, <1>2, <1>3 DEF RowStep, KeepsRetry, Processes
<1>5. TypeOK'
  BY <1>3 DEF TimePasses, TypeOK, goVars
<1>6. FailedInv'
  BY <1>4, FailedFrame DEF TimePasses, goVars, Structure
<1>7. Structure'
  BY <1>4, <1>5, <1>6, StructureFrame
  DEF TimePasses, goVars, Structure, SnapInv, JobInv, SentInv
<1>8. Execution'
  BY <1>4, <1>5, ExecutionFrame DEF TimePasses, goVars, Execution, SaveInv
<1> QED BY <1>4, <1>5, <1>7, <1>8

\* A process that starts again knows nothing that could be wrong.
LEMMA RestartStep ==
  ASSUME IndInv, Restart, crashes' \in 0..MaxCrashes
  PROVE  IndInv' /\ RowStep
<1> USE DEF IndInv
<1>1. TypeOK' /\ RowStep
  BY DEF Restart, dbVars, TypeOK, RowStep
<1>2. Structure'
  BY <1>1, StructureFrame DEF Restart, dbVars, Structure, FailedInv, SentInv
<1>3. Processes({})
  BY DEF Restart, dbVars, Processes
<1>4. Execution'
  BY <1>1, <1>3, ExecutionFrame DEF Restart, dbVars
<1> QED BY <1>1, <1>2, <1>4

-----------------------------------------------------------------------------
(***************************************************************************)
(* Every step.                                                             *)
(***************************************************************************)

\* Initially there is nothing to be wrong about.
LEMMA InitInv == Init => IndInv
<1> SUFFICES ASSUME Init PROVE IndInv
  OBVIOUS
<1>1. TypeOK
  BY ConstantsAssumption
  DEF Init, TypeOK, NoRow, Row, Status
<1>2. Structure
  BY DEF Init, NoRow, Saved, Structure, RowInv, ProofChain, Dense, PutInv,
         SnapInv, FailedInv, JobInv, SentInv
<1>3. Execution
  BY DEF Init, NoRow, Execution, InOrder, MarkInv, SaveInv, ProcessedSound
<1> QED BY <1>1, <1>2, <1>3 DEF IndInv

\* A step keeps the invariant, and inserts a row or is a step of rows.
LEMMA NextInv ==
  ASSUME IndInv, [Next]_vars
  PROVE  IndInv' /\ (RowStep \/ \E x \in puts : PutCreate(x))
<1>1. CASE UNCHANGED vars
  <2>1. row' = row /\ IndInv'
    BY <1>1 DEF vars, IndInv, TypeOK, Structure, RowInv, ProofChain, Dense,
                PutInv, SnapInv, SnapOK, FailedInv, JobInv, SentInv, Saved,
                Execution, InOrder, MarkInv, SaveInv, ProcessedSound
  <2> QED BY <2>1 DEF RowStep, IndInv, TypeOK
<1>2. ASSUME NEW p \in Putter, PutStep(p)
      PROVE  IndInv' /\ (RowStep \/ \E x \in puts : PutCreate(x))
  <2>1. ASSUME NEW t \in Tx, PutRead(p, t)
        PROVE  IndInv' /\ RowStep
    BY <2>1, PutReadStep DEF PutRead, RowStep, IndInv, TypeOK
  <2>2. ASSUME NEW x \in puts,
               PutCreate(x) \/ PutDuplicate(x) \/ PutSend(x) \/ PutPanics(x)
        PROVE  IndInv' /\ (RowStep \/ PutCreate(x))
    <3>1. CASE PutPanics(x)
      BY <3>1, RestartStep DEF PutPanics, IndInv, TypeOK
    <3> QED BY <2>2, <3>1, PutCreateStep, PutSendStep
  <2> QED BY <1>2, <2>1, <2>2 DEF PutStep
<1>3. ASSUME NEW j \in jobs, WorkerStep(j)
      PROVE  IndInv' /\ RowStep
  BY <1>3, SubmitStep, WorkerDbStep DEF WorkerStep
<1>4. CASE Crash
  <2>1. crashes' \in 0..MaxCrashes
    BY <1>4, ConstantsAssumption DEF Crash, IndInv, TypeOK
  <2> QED BY <1>4, <2>1, RestartStep DEF Crash
<1> QED
  BY <1>1, <1>2, <1>3, <1>4, FailedMonitorStep, TimedOutMonitorStep, MarksStep,
     ChainStep, TimeStep
  DEF Next

\* IndInv is an invariant.
THEOREM Invariance == Spec => []IndInv
<1>1. Init => IndInv
  BY InitInv
<1>2. IndInv /\ [Next]_vars => IndInv'
  BY NextInv
<1> QED BY <1>1, <1>2, PTL DEF Spec

\* Every variable keeps its type; in particular no row is sent more than
\* MaxRetry times, although the count is checked when the row is read and
\* raised when it is sent.
THEOREM TypeCorrect == Spec => []TypeOK
BY Invariance, PTL DEF IndInv

\* Two goroutines that insert rows never break the chain of proofs.
THEOREM ProofChainHolds == Spec => []ProofChain
<1>1. IndInv => ProofChain
  BY DEF IndInv, Structure
<1> QED BY <1>1, Invariance, PTL

\* No transaction is executed before one that was saved earlier, however often
\* any of them is sent.
THEOREM ExecutedInOrder == Spec => []InOrder
<1>1. IndInv => InOrder
  BY DEF IndInv, Execution
<1> QED BY <1>1, Invariance, PTL

\* No row is marked processed whose transaction Starcoin has not executed.
THEOREM ProcessedIsExecuted == Spec => []ProcessedSound
<1>1. IndInv => ProcessedSound
  BY DEF IndInv, Execution
<1> QED BY <1>1, Invariance, PTL

\* A processed row stays processed.
THEOREM ProcessedStays == Spec => ProcessedIsFinal
<1>1. ASSUME IndInv, [Next]_vars
      PROVE  [\A t \in Tx : row[t].status = "D" => row'[t].status = "D"]_vars
  <2>1. CASE RowStep
    BY <2>1 DEF RowStep
  <2>2. ASSUME NEW x \in puts, PutCreate(x)
        PROVE  \A t \in Tx : row[t].status = "D" => row'[t].status = "D"
    <3>1. x.tx \in Tx /\ row[x.tx].status = "none"
      BY <1>1, <2>2 DEF PutCreate, IndInv, TypeOK, Pending, Structure, RowInv,
                        Saved
    <3> QED BY <1>1, <2>2, <3>1 DEF PutCreate, IndInv, TypeOK
  <2> QED BY <1>1, <2>1, <2>2, NextInv
<1> QED BY <1>1, Invariance, PTL DEF Spec, ProcessedIsFinal

-----------------------------------------------------------------------------
(***************************************************************************)
(* The relay implements InOrderDelivery.                                   *)
(***************************************************************************)

\* What a step may do to the rows: it writes at most one.
OneRow == \A t, u \in Tx : row'[t] # row[t] /\ row'[u] # row[u] => t = u

\* Every statement of the database that writes an existing row writes one.
LEMMA WritesOneRow ==
  ASSUME TypeOK, NEW t, NEW r,
         row' = row \/ row' = [row EXCEPT ![t] = r]
  PROVE  OneRow
BY DEF OneRow, TypeOK

\* So does settling a row by what Starcoin says of its hash.
LEMMA StatusWritesOneRow ==
  ASSUME TypeOK, NEW t, NEW old, NEW new, NEW hash,
         \/ SetPolyTxStatus(t, old, new)
         \/ SetPolyTxStatusProcessed(t, old, hash)
  PROVE  OneRow
BY WritesOneRow DEF SetPolyTxStatus, SetPolyTxStatusProcessed

\* So does taking a row to send it.
LEMMA SendWritesOneRow ==
  ASSUME TypeOK, NEW t, NEW old, NEW base, SendPolyTx(t, old, base)
  PROVE  OneRow
BY WritesOneRow DEF SendPolyTx

\* No step of the system writes two rows.
LEMMA StepWritesOneRow ==
  ASSUME TypeOK, [Next]_vars
  PROVE  OneRow
<1>1. CASE UNCHANGED vars
  BY <1>1 DEF vars, OneRow
<1>2. ASSUME NEW p \in Putter, PutStep(p)
      PROVE  OneRow
  <2>1. ASSUME NEW t \in Tx, PutRead(p, t)
        PROVE  OneRow
    BY <2>1 DEF PutRead, OneRow
  <2>2. ASSUME NEW x \in puts,
               PutCreate(x) \/ PutDuplicate(x) \/ PutSend(x) \/ PutPanics(x)
        PROVE  OneRow
    <3>1. CASE PutCreate(x)
      BY <3>1, WritesOneRow DEF PutCreate
    <3>2. CASE PutSend(x)
      BY <3>2, SendWritesOneRow DEF PutSend
    <3>3. CASE PutDuplicate(x) \/ PutPanics(x)
      BY <3>3 DEF PutDuplicate, PutPanics, Restart, dbVars, OneRow
    <3> QED BY <2>2, <3>1, <3>2, <3>3
  <2> QED BY <1>2, <2>1, <2>2 DEF PutStep
<1>3. CASE FailedStep
  BY <1>3, SendWritesOneRow, StatusWritesOneRow
  DEF FailedStep, GetFirstFailedPolyTx, HandleFailedPolyTx, HandleTimedOut, OneRow
<1>4. CASE TickStep
  <2>1. CASE row' = row
    BY <2>1 DEF OneRow
  <2> QED
    BY <1>4, <2>1, StatusWritesOneRow
    DEF TickStep, GetTimedOutOrFailedPolyTxList, CheckOnChainSmtRoot,
        GetFirstTimedOutPolyTx, NoTimedOutPolyTx, HandleTimedOutPolyTx,
        HandleTimedOut
<1>5. ASSUME NEW j \in jobs, WorkerStep(j)
      PROVE  OneRow
  <2>1. CASE SetProcessingPolyTxStarcoinTxHash(j)
    BY <2>1, WritesOneRow DEF SetProcessingPolyTxStarcoinTxHash
  <2>2. CASE WaitTransactionConfirm(j)
    BY <2>2, StatusWritesOneRow DEF WaitTransactionConfirm
  <2>3. CASE SubmitTransaction(j) \/ SubmitFails(j)
    BY <2>3 DEF SubmitTransaction, SubmitFails, OneRow
  <2> QED BY <1>5, <2>1, <2>2, <2>3 DEF WorkerStep
<1>6. CASE MarkStep
  BY <1>6, WritesOneRow DEF MarkStep, MarkRead, MarkSave
<1>7. ASSUME NEW a \in sent, ChainRuns(a)
      PROVE  OneRow
  BY <1>7 DEF ChainRuns, OneRow
<1>8. ASSUME NEW t \in Tx, TimePasses(t)
      PROVE  OneRow
  BY <1>8 DEF TimePasses, OneRow, TypeOK
<1>9. CASE Crash
  BY <1>9 DEF Crash, Restart, dbVars, OneRow
<1> QED BY <1>1, <1>2, <1>3, <1>4, <1>5, <1>6, <1>7, <1>8, <1>9 DEF Next

\* Only Starcoin changes its tree, and it adds one transaction at a time.
LEMMA ChainGrows ==
  ASSUME [Next]_vars
  PROVE  \/ chain' = chain
         \/ \E a \in sent : /\ ChainRuns(a) /\ a.base = chain
                            /\ a.tx \notin chain /\ chain' = chain \cup {a.tx}
<1>1. CASE UNCHANGED vars
  BY <1>1 DEF vars
<1>2. ASSUME NEW p \in Putter, PutStep(p)
      PROVE  chain' = chain
  BY <1>2 DEF PutStep, PutRead, PutCreate, PutDuplicate, PutSend, PutPanics,
              Restart, dbVars
<1>3. CASE FailedStep \/ TickStep \/ MarkStep \/ Crash
  BY <1>3 DEF FailedStep, GetFirstFailedPolyTx, HandleFailedPolyTx, TickStep,
              GetTimedOutOrFailedPolyTxList, CheckOnChainSmtRoot,
              GetFirstTimedOutPolyTx, NoTimedOutPolyTx, HandleTimedOutPolyTx,
              MarkStep, MarkRead, MarkSave, Crash, Restart, dbVars
<1>4. ASSUME NEW j \in jobs, WorkerStep(j)
      PROVE  chain' = chain
  BY <1>4 DEF WorkerStep, SubmitTransaction, SubmitFails,
              SetProcessingPolyTxStarcoinTxHash, WaitTransactionConfirm
<1>5. ASSUME NEW a \in sent, ChainRuns(a)
      PROVE  \/ chain' = chain
             \/ a.base = chain /\ a.tx \notin chain /\ chain' = chain \cup {a.tx}
  BY <1>5 DEF ChainRuns
<1>6. ASSUME NEW t \in Tx, TimePasses(t)
      PROVE  chain' = chain
  BY <1>6 DEF TimePasses
<1> QED BY <1>1, <1>2, <1>3, <1>4, <1>5, <1>6 DEF Next

\* Whatever the goroutines do, in whatever order and with whatever crashes,
\* the table and the chain make a step of InOrderDelivery or none.
THEOREM RelayImplementsDelivery == Spec => ImplementsDelivery
<1> DEFINE pos == [t \in Tx |-> row[t].idx]
           processed == {t \in Tx : row[t].status = "D"}
<1>1. Init => Delivery!Init
  BY DEF Init, NoRow, Delivery!Init
<1>2. ASSUME IndInv, [Next]_vars
      PROVE  [Delivery!Next]_(<<pos, chain, processed>>)
  <2> USE <1>2 DEF IndInv
  <2>0. /\ IndInv' /\ OneRow /\ row \in [Tx -> Row] /\ row' \in [Tx -> Row]
        /\ \A t \in Tx : row[t].idx \in Nat /\ row'[t].idx \in Nat
    BY NextInv, StepWritesOneRow DEF TypeOK, Row
  <2>1. CASE chain' = chain /\ RowStep
    <3>1. pos' = pos /\ processed \subseteq processed'
      BY <2>1 DEF RowStep
    <3>2. CASE processed' = processed
      BY <2>1, <3>1, <3>2
    <3>3. ASSUME NEW t \in processed', t \notin processed
          PROVE  Delivery!Record(t)
      <4>1. t \in Tx /\ t \in chain /\ row'[t] # row[t]
        BY <2>0, <2>1, <3>3 DEF Execution, ProcessedSound
      <4>2. \A u \in Tx : u # t => row'[u] = row[u]
        BY <2>0, <4>1 DEF OneRow
      <4>3. processed' = processed \cup {t}
        BY <3>1, <3>3, <4>1, <4>2
      <4> QED BY <2>1, <3>1, <4>1, <4>3 DEF Delivery!Record
    <3> QED BY <3>1, <3>2, <3>3 DEF Delivery!Next
  <2>2. ASSUME NEW x \in puts, PutCreate(x)
        PROVE  Delivery!Accept(x.tx) /\ x.tx \in Tx
    <3>1. /\ x.tx \in Tx /\ x.idx \in Nat \ {0} /\ x.base \in SUBSET Tx
          /\ row[x.tx].idx = 0 /\ row[x.tx].status = "none"
          /\ \A k \in 1..(x.idx - 1) : \E u \in Tx : row[u].idx = k
          /\ \A u \in Tx : row[u].idx # x.idx
      BY <2>2 DEF PutCreate, IndexTaken, TypeOK, Pending, Structure, RowInv, PutInv, Saved
    <3>2. /\ row'[x.tx] = NewRow(x.idx, x.base)
          /\ \A u \in Tx : u # x.tx => row'[u] = row[u]
      BY <2>0, <2>2, <3>1 DEF PutCreate
    <3>3. pos' = [pos EXCEPT ![x.tx] = x.idx]
      <4>1. \A u \in Tx : row'[u].idx = [pos EXCEPT ![x.tx] = x.idx][u]
        BY <3>1, <3>2 DEF NewRow
      <4>2. pos' = [u \in Tx |-> row'[u].idx]
        OBVIOUS
      <4>3. [pos EXCEPT ![x.tx] = x.idx]
              = [u \in Tx |-> [pos EXCEPT ![x.tx] = x.idx][u]]
        OBVIOUS
      <4> HIDE DEF pos
      <4> QED BY <4>1, <4>2, <4>3
    <3>4. processed' = processed
      BY <3>1, <3>2 DEF NewRow
    <3>5. \A u \in Tx : pos[u] < x.idx
      <4> SUFFICES ASSUME NEW u \in Tx, row[u].idx > x.idx
                   PROVE  FALSE
        BY <2>0, <3>1
      <4>1. x.idx \in 1..row[u].idx
        BY <2>0, <3>1
      <4> QED BY <3>1, <4>1 DEF Structure, Dense
    <3>6. x.idx \in {1} \cup {pos[u] + 1 : u \in Tx}
      <4>1. CASE x.idx = 1
        BY <4>1
      <4>2. CASE x.idx # 1
        <5>1. x.idx - 1 \in 1..(x.idx - 1)
          BY <3>1, <4>2
        <5>2. PICK u \in Tx : row[u].idx = x.idx - 1
          BY <3>1, <5>1
        <5> QED BY <3>1, <5>2
      <4> QED BY <4>1, <4>2
    <3>7. pos[x.tx] = 0 /\ chain' = chain
      BY <2>2, <3>1 DEF PutCreate
    <3> QED
      BY <3>1, <3>3, <3>4, <3>5, <3>6, <3>7 DEF Delivery!Accept
  <2>3. ASSUME NEW a \in sent, ChainRuns(a), a.base = chain,
               a.tx \notin chain, chain' = chain \cup {a.tx}
        PROVE  Delivery!Deliver(a.tx) /\ a.tx \in Tx
    <3>1. /\ a.tx \in Tx /\ row[a.tx].idx # 0
          /\ chain = {u \in Tx : row[u].idx # 0 /\ row[u].idx < row[a.tx].idx}
      BY <2>3 DEF TypeOK, Attempt, Structure, SentInv, ProofChain, Saved
    <3>2. row' = row
      BY <2>3 DEF ChainRuns
    <3> QED BY <2>3, <3>1, <3>2 DEF Delivery!Deliver
  <2> QED
    BY <2>1, <2>2, <2>3, NextInv, ChainGrows DEF Delivery!Next, PutCreate
<1> QED
  BY <1>1, <1>2, Invariance, PTL DEF Spec, ImplementsDelivery, Delivery!Spec

-----------------------------------------------------------------------------
(***************************************************************************)
(* No attempt is made twice.                                               *)
(***************************************************************************)
\* The attempts of a row are counted while it may still be sent.
Numbered ==
  /\ \A j \in jobs : row[j.tx].status = "D" \/ j.n <= row[j.tx].retry
  /\ \A x \in sent : row[x.tx].status = "D" \/ x.n <= row[x.tx].retry

AttemptInv == Numbered /\ AttemptedOnce

\* A saved row stays processed or becomes so, or does not lose a retry.
Counts ==
  \A t \in Tx : Saved(t) =>
    \/ row'[t].status = "D"
    \/ row[t].status # "D" /\ row'[t].retry >= row[t].retry

\* What the statements of the database do to a row, and what leaves the table
\* alone, keeps the count.
LEMMA RowStepCounts ==
  ASSUME TypeOK, RowInv, RowStep, KeepsRetry
  PROVE  Counts
<1> SUFFICES ASSUME NEW t \in Tx, row'[t].status # "D"
             PROVE  row[t].status # "D" /\ row'[t].retry >= row[t].retry
  BY DEF Counts
<1>1. row[t].retry \in Nat /\ row'[t].retry \in Nat
  BY ConstantsAssumption DEF TypeOK, RowStep, Row
<1>2. row[t].status = "N" => row[t].retry = 0
  BY DEF RowInv
<1> QED BY <1>1, <1>2 DEF RowStep, KeepsRetry

LEMMA SameRowCounts ==
  ASSUME TypeOK, row' = row
  PROVE  Counts
<1>1. \A t \in Tx : row[t].retry \in Nat
  BY ConstantsAssumption DEF TypeOK, Row
<1> QED BY <1>1 DEF Counts

\* The row of a job or of a submitted transaction is there, and both are
\* numbered.
LEMMA AttemptsTyped ==
  ASSUME IndInv
  PROVE  /\ \A j \in jobs : j \in Job /\ j.tx \in Tx /\ j.n \in Nat /\ Saved(j.tx)
         /\ \A x \in sent : x \in Attempt /\ x.tx \in Tx /\ x.n \in Nat /\ Saved(x.tx)
         /\ \A t \in Tx : row[t].retry \in Nat
BY ConstantsAssumption
DEF IndInv, TypeOK, Structure, JobInv, SentInv, Job, Attempt, Row

\* What is numbered stays numbered while rows count.
LEMMA StaysNumbered ==
  ASSUME IndInv, IndInv', Counts, NEW t \in Tx, NEW n \in Nat, Saved(t),
         row[t].status = "D" \/ n <= row[t].retry
  PROVE  row'[t].status = "D" \/ n <= row'[t].retry
<1>1. row[t].retry \in Nat /\ row'[t].retry \in Nat
  BY AttemptsTyped, ConstantsAssumption DEF IndInv, TypeOK, Row
<1> QED BY <1>1 DEF Counts

\* A step that queues nothing and submits nothing makes no attempt.
LEMMA QuietStep ==
  ASSUME IndInv, IndInv', AttemptInv, Counts, jobs' \subseteq jobs, sent' = sent
  PROVE  AttemptInv'
<1>1. Numbered'
  BY AttemptsTyped, StaysNumbered DEF AttemptInv, Numbered
<1>2. AttemptedOnce'
  BY DEF AttemptInv, AttemptedOnce
<1> QED BY <1>1, <1>2 DEF AttemptInv

\* Neither does one that moves a job out of the queue.
LEMMA MoveStep ==
  ASSUME IndInv, IndInv', AttemptInv, Counts, NEW j \in jobs,
         NEW stage \in {"submitted", "waiting"},
         MoveJob(j, stage), sent' = sent
  PROVE  AttemptInv'
<1> DEFINE moved == [j EXCEPT !.stage = stage]
<1>1. moved.tx = j.tx /\ moved.n = j.n /\ moved.stage = stage
  BY AttemptsTyped DEF Job
<1>2. jobs' = (jobs \ {j}) \cup {moved}
  BY DEF MoveJob
<1> HIDE DEF moved
<1>3. Numbered'
  BY <1>1, <1>2, AttemptsTyped, StaysNumbered DEF AttemptInv, Numbered
<1>4. AttemptedOnce'
  BY <1>1, <1>2 DEF AttemptInv, AttemptedOnce
<1> QED BY <1>3, <1>4 DEF AttemptInv

\* A row that is taken to be sent is given a number that none of its attempts
\* has had.
LEMMA SendsAnew ==
  ASSUME IndInv, IndInv', AttemptInv, NEW t \in Tx, Saved(t), NEW old, NEW base,
         SendPolyTx(t, old, base), sent' = sent
  PROVE  AttemptInv'
<1>1. CASE CanSetProcessing(t, old)
  <2> DEFINE job == [tx |-> t, n |-> row[t].retry + 1, base |-> base,
                     stage |-> "queued"]
             n == row[t].retry + 1
  <2>1. /\ row' = [row EXCEPT ![t] = [row[t] EXCEPT !.status = "P", !.hash = 0,
                             !.retry = row[t].retry + 1, !.stale = FALSE]]
        /\ jobs' = jobs \cup {job} /\ row[t].status # "D"
    BY <1>1 DEF SendPolyTx, CanSetProcessing
  <2>2. /\ row'[t].status = "P" /\ row'[t].retry = n
        /\ \A u \in Tx : u # t => row'[u] = row[u]
    BY <2>1 DEF IndInv, TypeOK, Row
  <2>3. row[t].retry \in Nat /\ n \in Nat /\ n = row[t].retry + 1
    BY AttemptsTyped
  <2>4. job.tx = t /\ job.n = n /\ job.stage = "queued"
    OBVIOUS
  <2> HIDE DEF job, n
  <2>5. Counts
    BY <2>1, <2>2, <2>3, AttemptsTyped DEF Counts
  <2>6. /\ \A j \in jobs : j.tx = t => j.n # n
        /\ \A x \in sent : x.tx = t => x.n # n
    BY <2>1, <2>3, AttemptsTyped DEF AttemptInv, Numbered
  <2>7. Numbered'
    <3>1. \A x \in sent' : row'[x.tx].status = "D" \/ x.n <= row'[x.tx].retry
      BY <2>5, AttemptsTyped, StaysNumbered DEF AttemptInv, Numbered
    <3>2. \A j \in jobs : row'[j.tx].status = "D" \/ j.n <= row'[j.tx].retry
      BY <2>5, AttemptsTyped, StaysNumbered DEF AttemptInv, Numbered
    <3>3. job.n <= row'[job.tx].retry
      BY <2>2, <2>3, <2>4
    <3> QED BY <2>1, <3>1, <3>2, <3>3 DEF Numbered
  <2>8. AttemptedOnce'
    BY <2>1, <2>4, <2>6 DEF AttemptInv, AttemptedOnce
  <2> QED BY <2>7, <2>8 DEF AttemptInv
<1>2. CASE ~CanSetProcessing(t, old)
  <2>1. row' = row /\ jobs' = jobs
    BY <1>2 DEF SendPolyTx
  <2> QED BY <2>1, SameRowCounts, QuietStep DEF IndInv
<1> QED BY <1>1, <1>2

\* A worker submits the transaction of a job that no worker has had before.
LEMMA SubmitsOnce ==
  ASSUME IndInv, IndInv', AttemptInv, NEW j \in jobs, SubmitTransaction(j)
  PROVE  AttemptInv'
<1> DEFINE new   == [tx |-> j.tx, n |-> j.n, base |-> j.base, fate |-> "pending"]
           moved == [j EXCEPT !.stage = "submitted"]
<1>1. /\ moved.tx = j.tx /\ moved.n = j.n /\ moved.stage = "submitted"
      /\ new.tx = j.tx /\ new.n = j.n
  BY AttemptsTyped DEF Job
<1>2. /\ jobs' = (jobs \ {j}) \cup {moved} /\ sent' = sent \cup {new}
      /\ row' = row /\ j.stage = "queued"
  BY DEF SubmitTransaction, MoveJob, JobAt
<1> HIDE DEF new, moved
<1>3. Numbered'
  BY <1>1, <1>2 DEF AttemptInv, Numbered
<1>4. AttemptedOnce'
  BY <1>1, <1>2 DEF AttemptInv, AttemptedOnce
<1> QED BY <1>3, <1>4 DEF AttemptInv

\* What Starcoin does with a transaction does not make another one of it.
LEMMA RunsOnce ==
  ASSUME IndInv, AttemptInv, NEW a \in sent, ChainRuns(a)
  PROVE  AttemptInv'
<1>1. PICK f \in {"executed", "aborted"} :
        sent' = (sent \ {a}) \cup {[a EXCEPT !.fate = f]}
  BY DEF ChainRuns
<1> DEFINE ran == [a EXCEPT !.fate = f]
<1>2. ran.tx = a.tx /\ ran.n = a.n
  BY AttemptsTyped DEF Attempt
<1>3. sent' = (sent \ {a}) \cup {ran} /\ row' = row /\ jobs' = jobs
  BY <1>1 DEF ChainRuns, goVars
<1> HIDE DEF ran
<1>4. Numbered'
  BY <1>2, <1>3 DEF AttemptInv, Numbered
<1>5. AttemptedOnce'
  BY <1>2, <1>3 DEF AttemptInv, AttemptedOnce
<1> QED BY <1>4, <1>5 DEF AttemptInv

\* Settling a row by what Starcoin says sends nothing.
LEMMA TimedOutQuiet ==
  ASSUME IndInv, IndInv', AttemptInv, NEW s \in Snap, SnapOK(s),
         s.row.status # "D", HandleTimedOut(s), jobs' = jobs, sent' = sent
  PROVE  AttemptInv'
BY HandleTimedOutStep, RowStepCounts, QuietStep DEF IndInv, Structure

\* Every step of the system keeps the attempts apart.
LEMMA AttemptStep ==
  ASSUME IndInv, IndInv', AttemptInv, [Next]_vars
  PROVE  AttemptInv'
<1> USE DEF IndInv
<1>1. CASE row' = row /\ jobs' \subseteq jobs /\ sent' = sent
  BY <1>1, SameRowCounts, QuietStep
<1>2. ASSUME NEW p \in Putter, PutStep(p)
      PROVE  AttemptInv'
  <2>1. CASE \E t \in Tx : PutRead(p, t)
    BY <1>1, <2>1 DEF PutRead
  <2>2. ASSUME NEW x \in puts, PutCreate(x)
        PROVE  AttemptInv'
    <3>1. Counts
      BY <2>2, AttemptsTyped DEF PutCreate, Counts, TypeOK
    <3> QED BY <2>2, <3>1, QuietStep DEF PutCreate
  <2>3. ASSUME NEW x \in puts, PutDuplicate(x) \/ PutPanics(x)
        PROVE  AttemptInv'
    BY <1>1, <2>3 DEF PutDuplicate, PutPanics, Restart, dbVars
  <2>4. ASSUME NEW x \in puts, PutSend(x)
        PROVE  AttemptInv'
    <3>1. x.tx \in Tx /\ Saved(x.tx)
      BY <2>4 DEF PutSend, TypeOK, Pending, Structure, PutInv
    <3> QED BY <2>4, <3>1, SendsAnew DEF PutSend
  <2> QED BY <1>2, <2>1, <2>2, <2>3, <2>4 DEF PutStep
<1>3. CASE FailedStep
  <2>1. CASE \E t \in Tx : GetFirstFailedPolyTx(t)
    BY <1>1, <2>1 DEF GetFirstFailedPolyTx
  <2>2. ASSUME NEW s \in failedSnap, HandleFailedPolyTx(s)
        PROVE  AttemptInv'
    <3>1. s \in Snap /\ s.tx \in Tx /\ SnapOK(s) /\ s.row.status # "D" /\ Saved(s.tx)
      BY DEF TypeOK, Snap, Structure, SnapInv, SnapOK
    <3>2. sent' = sent
      BY <2>2 DEF HandleFailedPolyTx
    <3>3. CASE HandleTimedOut(s) /\ UNCHANGED jobs
      BY <3>1, <3>2, <3>3, TimedOutQuiet
    <3>4. CASE SendPolyTx(s.tx, s.row.status, s.row.base)
      BY <3>1, <3>2, <3>4, SendsAnew
    <3> QED BY <2>2, <3>3, <3>4 DEF HandleFailedPolyTx
  <2> QED BY <1>3, <2>1, <2>2 DEF FailedStep
<1>4. CASE TickStep
  <2>1. CASE \/ GetTimedOutOrFailedPolyTxList \/ NoTimedOutPolyTx
             \/ \E t \in Tx : GetFirstTimedOutPolyTx(t)
    BY <1>1, <2>1 DEF GetTimedOutOrFailedPolyTxList, NoTimedOutPolyTx,
                      GetFirstTimedOutPolyTx
  <2>2. ASSUME NEW s \in tickSnaps,
               SetPolyTxStatusProcessed(s.tx, s.row.status, s.row.hash),
               CheckOnChainSmtRoot
        PROVE  AttemptInv'
    <3>1. /\ s.tx \in Tx /\ Saved(s.tx)
          /\ s.row.status \in Status \ {"D"} /\ s.row.hash \in 0..MaxRetry
      BY DEF TypeOK, Structure, SnapInv, SnapOK, Snap, Row
    <3>2. Counts
      BY <2>2, <3>1, SetProcessedStep, RowStepCounts DEF Structure
    <3> QED BY <2>2, <3>2, QuietStep DEF CheckOnChainSmtRoot
  <2>3. CASE CheckOnChainSmtRoot
    BY <1>1, <2>2, <2>3 DEF CheckOnChainSmtRoot
  <2>4. ASSUME NEW s \in tickSnaps, HandleTimedOutPolyTx(s)
        PROVE  AttemptInv'
    <3>1. s \in Snap /\ SnapOK(s) /\ s.row.status # "D"
      BY DEF TypeOK, Structure, SnapInv
    <3> QED BY <2>4, <3>1, TimedOutQuiet DEF HandleTimedOutPolyTx
  <2> QED BY <1>4, <2>1, <2>3, <2>4 DEF TickStep
<1>5. ASSUME NEW j \in jobs, WorkerStep(j)
      PROVE  AttemptInv'
  <2>0. j.tx \in Tx /\ Saved(j.tx) /\ j.n \in 0..MaxRetry
    BY DEF TypeOK, Structure, JobInv, Job
  <2>1. CASE SubmitTransaction(j)
    BY <2>1, SubmitsOnce
  <2>2. CASE SubmitFails(j)
    BY <1>1, <2>2 DEF SubmitFails, EndJob
  <2>3. CASE SetProcessingPolyTxStarcoinTxHash(j)
    <3>1. CASE UNCHANGED row
      BY <1>1, <2>3, <3>1, SameRowCounts, MoveStep
      DEF SetProcessingPolyTxStarcoinTxHash, EndJob
    <3>2. CASE /\ row' = [row EXCEPT ![j.tx] = [row[j.tx] EXCEPT !.hash = j.n,
                                                             !.stale = FALSE]]
               /\ MoveJob(j, "waiting")
      <4>1. /\ row'[j.tx].status = row[j.tx].status
            /\ row'[j.tx].retry = row[j.tx].retry
            /\ \A u \in Tx : u # j.tx => row'[u] = row[u]
        BY <2>0, <3>2 DEF TypeOK, Row
      <4>2. Counts
        BY <4>1, AttemptsTyped DEF Counts
      <4> QED BY <2>3, <3>2, <4>2, MoveStep DEF SetProcessingPolyTxStarcoinTxHash
    <3> QED BY <2>3, <3>1, <3>2 DEF SetProcessingPolyTxStarcoinTxHash
  <2>4. CASE WaitTransactionConfirm(j)
    <3>1. RowStep /\ KeepsRetry
      BY <2>0, <2>4, SetStatusStep, SetProcessedStep
      DEF WaitTransactionConfirm, Structure, Status
    <3> QED BY <2>4, <3>1, RowStepCounts, QuietStep
            DEF WaitTransactionConfirm, EndJob, Structure
  <2> QED BY <1>5, <2>1, <2>2, <2>3, <2>4 DEF WorkerStep
<1>6. CASE MarkStep
  <2>1. CASE \E i \in marks : MarkRead(i)
    BY <1>1, <2>1 DEF MarkRead
  <2>2. ASSUME NEW s \in saves, MarkSave(s)
        PROVE  AttemptInv'
    <3>1. /\ row'[s.tx].status = "D"
          /\ \A u \in Tx : u # s.tx => row'[u] = row[u]
      BY <2>2 DEF MarkSave, TypeOK, Snap, Row
    <3>2. Counts
      BY <3>1, AttemptsTyped DEF Counts
    <3> QED BY <2>2, <3>2, QuietStep DEF MarkSave
  <2> QED BY <1>6, <2>1, <2>2 DEF MarkStep
<1>7. CASE \E a \in sent : ChainRuns(a)
  BY <1>7, RunsOnce
<1>8. ASSUME NEW t \in Tx, TimePasses(t)
      PROVE  AttemptInv'
  <2>1. /\ row'[t].status = row[t].status /\ row'[t].retry = row[t].retry
        /\ \A u \in Tx : u # t => row'[u] = row[u]
    BY <1>8 DEF TimePasses, TypeOK, Row
  <2>2. Counts
    BY <2>1, AttemptsTyped DEF Counts
  <2> QED BY <1>8, <2>2, QuietStep DEF TimePasses, goVars
<1>9. CASE Crash \/ UNCHANGED vars
  BY <1>1, <1>9 DEF Crash, Restart, dbVars, vars
<1> QED BY <1>2, <1>3, <1>4, <1>5, <1>6, <1>7, <1>8, <1>9 DEF Next

\* No two transactions are submitted for one attempt, however often rows are
\* taken, marked and saved back and whatever the workers are in the middle of.
THEOREM AttemptsAreDistinct == Spec => []AttemptedOnce
<1>1. Init => AttemptInv
  BY DEF Init, AttemptInv, Numbered, AttemptedOnce
<1>2. IndInv /\ IndInv' /\ AttemptInv /\ [Next]_vars => AttemptInv'
  BY AttemptStep
<1>3. AttemptInv => AttemptedOnce
  BY DEF AttemptInv
<1> QED BY <1>1, <1>2, <1>3, Invariance, PTL DEF Spec
=============================================================================
