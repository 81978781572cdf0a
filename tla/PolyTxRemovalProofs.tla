------------------------ MODULE PolyTxRemovalProofs ------------------------
(***************************************************************************)
(* No transaction is lost while its row is removed or pushed back, and no  *)
(* row is overwritten by that of another: for any transactions, requests,  *)
(* failed calls and crashes.                                               *)
(***************************************************************************)
EXTENDS PolyTxRemoval, TLAPS

\* tx_index is the primary key.
Unique ==
  /\ \A t, u \in Tx : Saved(t) /\ row[t].idx = row[u].idx => t = u
  /\ \A t \in Tx : Saved(t) <=> row[t].status # "none"

\* What is saved, removed, sent or moved has been saved by MonitorChain; what
\* it is about to save has not.
Fresh ==
  /\ \A t \in Tx : Saved(t) \/ IsRemoved(t) => t \in seen
  /\ \A x \in put : x.tx \notin seen /\ x.row.idx # 0 /\ x.row.status = "N"
                                    /\ x.row.retry = 0
  /\ \A x \in sending \cup held : x.tx \in seen

\* Since the row was copied to be sent, it has not changed but that its root
\* may have been reset; or it has left the status that the send expects.
Unchanged(x) ==
  /\ row[x.tx].status = x.copy.row.status
  /\ row[x.tx].idx = x.copy.row.idx
  /\ row[x.tx].retry = x.copy.row.retry
  /\ x.copy.row.base = NoRoot => row[x.tx].base = NoRoot

Changed(x) ==
  /\ x.copy.row.status \in {"P", "F"}
  /\ row[x.tx].status \notin {x.copy.row.status, "P"}

Copied(x) ==
  /\ x.copy.row.status \in {"N", "P", "F"} /\ x.copy.row.retry < MaxRetry
  /\ Unchanged(x) \/ Changed(x)

\* A row whose root is computed stays at its index, and cannot be removed: it
\* has no root, or is processed.
Computing(x) ==
  /\ row[x.tx].idx # 0
  /\ row[x.tx].idx = x.copy.row.idx
  /\ row[x.tx].status # "N"
  /\ row[x.tx].base = NoRoot \/ row[x.tx].status = "D"
  /\ x.stage = "read" => x.copy.row.status \notin {"none", "N"}

Sends ==
  /\ \A x, y \in sending : x.tx = y.tx => x = y
  /\ \A x \in sending : /\ x.copy.tx = x.tx
                        /\ x.stage = "copied" => Copied(x)
                        /\ x.stage \in {"taken", "read"} => Computing(x)

\* A row that a bulk update has read stays at its index.
SavesInPlace ==
  \A x \in saves : /\ x.row.idx # 0 /\ row[x.tx].idx = x.row.idx
                   /\ row[x.tx].status # "N"

\* The row to be removed stays where it is, and nothing is to be saved over it.
Removing ==
  tick = "delete" =>
    \A x \in held : /\ x.row.idx # 0 /\ row[x.tx].idx = x.row.idx
                    /\ x.row.status = "TBR" /\ row[x.tx].status = "TBR"
                    /\ \A y \in saves : y.tx # x.tx
                    /\ \A y \in sending : y.tx = x.tx => y.stage \in {"copied", "saved"}

\* A row is deleted from removed_poly_tx only after it is in poly_tx.
PuttingBack ==
  /\ tick \in {"put", "drop"} =>
       \A x \in held : x.row.idx # 0 /\ x.row.status = "N"
  /\ tick = "drop" => \A x \in held : Saved(x.tx)

OneHeld == \A x, y \in held : x = y

IndInv == /\ TypeOK /\ Unique /\ Fresh /\ Sends /\ SavesInPlace /\ Removing
          /\ PuttingBack /\ OneHeld /\ NeverLost


-----------------------------------------------------------------------------
\* The constants as the proofs use them.
LEMMA Constants ==
  /\ NoRoot # BadRoot
  /\ \A K \in SUBSET Tx : K # NoRoot /\ K # BadRoot
  /\ MaxRetry \in Nat /\ MaxRetry # 0 /\ MaxPushes \in Nat /\ MaxFaults \in Nat
BY ConstantsAssumption DEF ConstantsAssumption

LEMMA FaultBound ==
  ASSUME faults \in 0..MaxFaults, faults' = faults \/ Fault
  PROVE  faults' \in 0..MaxFaults
BY Constants DEF Fault

\* The fields of a row, and rows with other ones.
LEMMA RowTypes ==
  ASSUME NEW r \in Row
  PROVE  /\ r.idx \in Nat /\ r.base \in Root /\ r.retry \in 0..MaxRetry
         /\ r.status \in {"none", "N", "P", "F", "D", "TBR"}
         /\ \A s \in {"P", "F", "D", "TBR"} :
              /\ [r EXCEPT !.status = s] \in Row
              /\ [r EXCEPT !.status = s].idx = r.idx
              /\ [r EXCEPT !.status = s].base = r.base
              /\ [r EXCEPT !.status = s].retry = r.retry
              /\ [r EXCEPT !.status = s].status = s
         /\ \A base \in Root :
              /\ [r EXCEPT !.base = base] \in Row
              /\ [r EXCEPT !.base = base].idx = r.idx
              /\ [r EXCEPT !.base = base].base = base
              /\ [r EXCEPT !.base = base].retry = r.retry
              /\ [r EXCEPT !.base = base].status = r.status
<1>1. /\ r.idx \in Nat /\ r.base \in Root /\ r.retry \in 0..MaxRetry
      /\ r.status \in {"none", "N", "P", "F", "D", "TBR"}
  BY DEF Row
<1>2. ASSUME NEW s \in {"P", "F", "D", "TBR"}
      PROVE  /\ [r EXCEPT !.status = s] \in Row
             /\ [r EXCEPT !.status = s].idx = r.idx
             /\ [r EXCEPT !.status = s].base = r.base
             /\ [r EXCEPT !.status = s].retry = r.retry
             /\ [r EXCEPT !.status = s].status = s
  BY DEF Row
<1>3. ASSUME NEW base \in Root
      PROVE  /\ [r EXCEPT !.base = base] \in Row
             /\ [r EXCEPT !.base = base].idx = r.idx
             /\ [r EXCEPT !.base = base].base = base
             /\ [r EXCEPT !.base = base].retry = r.retry
             /\ [r EXCEPT !.base = base].status = r.status
  BY DEF Row
<1> QED
  BY <1>1, <1>2, <1>3

LEMMA NoRowTypes ==
  /\ NoRow \in Row /\ NoRow.idx = 0 /\ NoRow.status = "none"
  /\ NoRoot \in Root
BY Constants DEF NoRow, Row, Root

\* What the invariant says of the rows, sends, saves and the row held.
LEMMA Facts ==
  ASSUME IndInv
  PROVE  /\ row \in [Tx -> Row] /\ removed \in [Tx -> Removed]
         /\ seen \subseteq Tx /\ chain \subseteq Tx
         /\ \A t \in Tx : row[t] \in Row
         /\ \A x \in sending : x \in Send /\ x.tx \in Tx /\ x.copy.row \in Row
         /\ \A x \in saves : x.tx \in Tx /\ x.row \in Row
         /\ \A x \in held : x.tx \in Tx /\ x.row \in Row
         /\ \A x \in put : x.tx \in Tx /\ x.row \in Row
<1>1. TypeOK
  BY DEF IndInv
<1>2. \A x \in Copy : x.tx \in Tx /\ x.row \in Row
  BY DEF Copy
<1>3. \A x \in Send : x.tx \in Tx /\ x.copy \in Copy
  BY DEF Send
<1> QED
  BY <1>1, <1>2, <1>3 DEF TypeOK

\* What a step may do to the rows: a root is reset, a row is marked as
\* processed, is to be removed or has failed, or leaves the table.
Reset(t) ==
  /\ row'[t].idx = row[t].idx /\ row'[t].status = row[t].status
  /\ row'[t].retry = row[t].retry /\ row'[t].base \in {row[t].base, NoRoot}

Processed(t) ==
  /\ row'[t].idx = row[t].idx
  /\ row[t].status \notin {"none", "N"} /\ row'[t].status = "D"
  /\ row[t].status = "TBR" => \E x \in saves : x.tx = t

Requested(t) ==
  /\ row'[t].idx = row[t].idx /\ row'[t].base = row[t].base
  /\ row[t].status \in {"P", "F"} /\ row'[t].status = "TBR"

Failed(t) ==
  /\ row'[t].idx = row[t].idx /\ row'[t].base = row[t].base
  /\ row[t].status = "P" /\ row'[t].status = "F"

Left(t) ==
  /\ row'[t].idx = 0 /\ row'[t].status = "none" /\ IsRemoved(t)'
  /\ held' = {}
  /\ \E x \in held : x.tx = t /\ x.row.status = "TBR"
  /\ row[t].status = "TBR"
  /\ \A x \in saves : x.tx # t
  /\ \A x \in sending : x.tx = t => x.stage \in {"copied", "saved"}

Moves(t) == Reset(t) \/ Processed(t) \/ Requested(t) \/ Failed(t) \/ Left(t)

Stays(t) ==
  Saved(t) => \/ row'[t].idx = row[t].idx
              \/ /\ ~Saved(t)' /\ IsRemoved(t)'
                 /\ \E x \in held : x.tx = t /\ x.row.status = "TBR"

Kept == IndInv' /\ \A t \in Tx : Stays(t)

\* What is about to be sent or saved still fits the row after such a move.
LEMMA SendKept ==
  ASSUME IndInv, NEW x \in sending, Moves(x.tx)
  PROVE  /\ Copied(x) => Copied(x)'
         /\ x.stage \in {"taken", "read"} /\ Computing(x) => Computing(x)'
<1> DEFINE t == x.tx
<1>1. CASE Reset(t)
  BY <1>1 DEF Reset, Copied, Unchanged, Changed, Computing
<1>2. CASE Processed(t)
  BY <1>2 DEF Processed, Copied, Unchanged, Changed, Computing
<1>3. CASE Requested(t)
  BY <1>3 DEF Requested, Copied, Unchanged, Changed, Computing
<1>4. CASE Failed(t)
  BY <1>4 DEF Failed, Copied, Unchanged, Changed, Computing
<1>5. CASE Left(t)
  BY <1>5 DEF Left, Copied, Unchanged, Changed, Computing
<1> QED
  BY <1>1, <1>2, <1>3, <1>4, <1>5 DEF Moves

\* Whatever does no more than that to the rows keeps the invariant.
LEMMA MovesKeep ==
  ASSUME IndInv, TypeOK', \A t \in Tx : Moves(t),
         \A t \in Tx : IsRemoved(t)' => IsRemoved(t) \/ Saved(t),
         \A t \in Tx : Saved(t) \/ IsRemoved(t) => Saved(t)' \/ IsRemoved(t)',
         seen' = seen,
         \A x \in put' : /\ x.tx \notin seen /\ x.row.idx # 0
                         /\ x.row.status = "N" /\ x.row.retry = 0,
         sending' \subseteq sending, saves' \subseteq saves,
         \/ held' = held /\ tick' = tick
         \/ held' = {} /\ tick' \in {"remove", "push"}
  PROVE  Kept
<1>1. /\ \A x \in sending : x.tx \in Tx
      /\ \A x \in saves : x.tx \in Tx
      /\ \A x \in held : x.tx \in Tx
      /\ \A t \in seen : t \in Tx
  BY Facts
<1>2. \A t \in Tx : \/ row'[t].idx = row[t].idx
                    \/ row'[t].idx = 0 /\ Left(t)
  BY DEF Moves, Reset, Processed, Requested, Failed, Left
<1>3. \A t \in Tx : Saved(t)' <=> row'[t].status # "none"
  <2>1. SUFFICES ASSUME NEW t \in Tx
                 PROVE  row'[t].idx # 0 <=> row'[t].status # "none"
    BY DEF Saved
  <2>2. row[t].idx # 0 <=> row[t].status # "none"
    BY DEF IndInv, Unique, Saved
  <2> QED
    BY <2>2 DEF Moves, Reset, Processed, Requested, Failed, Left
<1>4. Unique'
  BY <1>2, <1>3 DEF IndInv, Unique, Saved
<1>5. Fresh'
  BY <1>1, <1>2 DEF IndInv, Fresh, Saved
<1>6. Sends'
  <2>1. \A x, y \in sending' : x.tx = y.tx => x = y
    BY DEF IndInv, Sends
  <2>2. ASSUME NEW x \in sending'
        PROVE  /\ x.copy.tx = x.tx
               /\ x.stage = "copied" => Copied(x)'
               /\ x.stage \in {"taken", "read"} => Computing(x)'
    <3>1. /\ x.copy.tx = x.tx
          /\ x.stage = "copied" => Copied(x)
          /\ x.stage \in {"taken", "read"} => Computing(x)
      BY DEF IndInv, Sends
    <3>2. x \in sending /\ Moves(x.tx)
      BY <1>1
    <3>3. /\ Copied(x) => Copied(x)'
          /\ x.stage \in {"taken", "read"} /\ Computing(x) => Computing(x)'
      BY <3>2, SendKept
    <3> QED
      BY <3>1, <3>3
  <2> QED
    BY <2>1, <2>2 DEF Sends
<1>7. SavesInPlace'
  <2>1. SUFFICES ASSUME NEW x \in saves
                 PROVE  /\ x.row.idx # 0 /\ row'[x.tx].idx = x.row.idx
                        /\ row'[x.tx].status # "N"
    BY DEF SavesInPlace
  <2>2. /\ x.row.idx # 0 /\ row[x.tx].idx = x.row.idx
        /\ row[x.tx].status # "N"
    BY DEF IndInv, SavesInPlace
  <2>3. Moves(x.tx)
    BY <1>1
  <2> QED
    BY <2>2, <2>3 DEF Moves, Reset, Processed, Requested, Failed, Left
<1>8. Removing'
  <2>1. SUFFICES ASSUME tick' = "delete", NEW x \in held'
                 PROVE  /\ x.row.idx # 0 /\ row'[x.tx].idx = x.row.idx
                        /\ x.row.status = "TBR" /\ row'[x.tx].status = "TBR"
                        /\ \A y \in saves' : y.tx # x.tx
                        /\ \A y \in sending' :
                             y.tx = x.tx => y.stage \in {"copied", "saved"}
    BY DEF Removing
  <2>2. held' = held /\ tick = "delete" /\ x \in held /\ x.tx \in Tx
    BY <1>1, <2>1
  <2>3. /\ x.row.idx # 0 /\ row[x.tx].idx = x.row.idx
        /\ x.row.status = "TBR" /\ row[x.tx].status = "TBR"
        /\ \A y \in saves : y.tx # x.tx
        /\ \A y \in sending : y.tx = x.tx => y.stage \in {"copied", "saved"}
    BY <2>2 DEF IndInv, Removing
  <2>4. Reset(x.tx)
    BY <2>2, <2>3 DEF Moves, Processed, Requested, Failed, Left
  <2> QED
    BY <2>3, <2>4 DEF Reset
<1>9. PuttingBack'
  <2>1. SUFFICES ASSUME NEW x \in held', tick' \in {"put", "drop"}
                 PROVE  /\ x.row.idx # 0 /\ x.row.status = "N"
                        /\ tick' = "drop" => row'[x.tx].idx # 0
    BY DEF PuttingBack, Saved
  <2>2. held' = held /\ tick' = tick /\ x \in held /\ x.tx \in Tx
    BY <1>1, <2>1
  <2>3. ~Left(x.tx)
    BY <2>2 DEF Left
  <2> QED
    BY <1>2, <2>1, <2>2, <2>3 DEF IndInv, PuttingBack, Saved
<1>10. OneHeld'
  BY DEF IndInv, OneHeld
<1>11. NeverLost'
  BY <1>1 DEF IndInv, NeverLost
<1>12. \A t \in Tx : Stays(t)
  BY <1>2 DEF Stays, Left, Saved
<1> QED
  BY <1>4, <1>5, <1>6, <1>7, <1>8, <1>9, <1>10, <1>11, <1>12 DEF Kept, IndInv

\* A step that changes no row and only drops what goroutines hold.
LEMMA SameRows ==
  ASSUME IndInv, TypeOK', UNCHANGED <<row, seen>>,
         \A t \in Tx : IsRemoved(t)' <=> IsRemoved(t),
         put' \subseteq put, sending' \subseteq sending, saves' \subseteq saves,
         \/ held' = held /\ tick' = tick
         \/ held' = {} /\ tick' \in {"remove", "push"}
  PROVE  Kept
<1>1. \A t \in Tx : Moves(t)
  BY DEF Moves, Reset
<1>2. \A t \in Tx : Saved(t)' <=> Saved(t)
  BY DEF Saved
<1>3. \A x \in put' : /\ x.tx \notin seen /\ x.row.idx # 0
                      /\ x.row.status = "N" /\ x.row.retry = 0
  BY DEF IndInv, Fresh
<1> QED
  BY <1>1, <1>2, <1>3, MovesKeep

\* The removed rows are the same.
LEMMA SameRemoved ==
  ASSUME removed' = removed
  PROVE  \A t \in Tx : IsRemoved(t)' <=> IsRemoved(t)
BY DEF IsRemoved

-----------------------------------------------------------------------------
(***************************************************************************)
(* New rows.                                                               *)
(***************************************************************************)
\* What PutPolyTx is about to insert.
LEMMA NextRowTypes ==
  ASSUME IndInv, NEW t \in Tx, NEW retry \in 0..MaxRetry,
         NEW x \in NextRows(t, retry)
  PROVE  /\ x \in Copy /\ x.tx = t /\ x.row.idx # 0
         /\ x.row.status = "N" /\ x.row.retry = retry
<1>1. \A u \in Tx : row[u].idx \in Nat
  BY Facts, RowTypes
<1>2. \A i \in NextIndexes : i \in Nat /\ i # 0
  <2>1. \A i \in Nat : i + 1 \in Nat /\ i + 1 # 0
    OBVIOUS
  <2> QED
    BY <1>1, <2>1 DEF NextIndexes
<1>3. PICK i \in NextIndexes, base \in Root : x.row = NewRow(i, base, retry)
  BY DEF NextRows
<1>4. x.row \in Row /\ x.row.idx = i /\ x.row.status = "N" /\ x.row.retry = retry
  BY <1>2, <1>3 DEF NewRow, Row
<1>5. x \in [tx: {t}, row: {NewRow(k, b, retry) : k \in NextIndexes, b \in Root}]
  BY DEF NextRows
<1>6. x.tx = t /\ x = [tx |-> x.tx, row |-> x.row]
  BY <1>5
<1>7. x \in Copy
  BY <1>4, <1>6 DEF Copy
<1> QED
  BY <1>2, <1>4, <1>6, <1>7

LEMMA PutReadKeeps ==
  ASSUME IndInv, NEW t \in Tx, PutRead(t)
  PROVE  Kept
<1>1. PICK x \in NextRows(t, 0) : put' = {x}
  BY DEF PutRead
<1>2. 0 \in 0..MaxRetry
  BY Constants
<1>3. /\ x \in Copy /\ x.tx = t /\ x.row.idx # 0
      /\ x.row.status = "N" /\ x.row.retry = 0
  BY <1>1, <1>2, NextRowTypes
<1>4. /\ t \notin seen
      /\ UNCHANGED <<row, removed, seen, chain, jobs, sending, marks, saves, tick,
                     held, pushes, faults>>
  BY DEF PutRead
<1>5. TypeOK'
  BY <1>1, <1>3, <1>4 DEF IndInv, TypeOK
<1>6. \A u \in Tx : Moves(u)
  BY <1>4 DEF Moves, Reset
<1>7. \A u \in Tx : /\ Saved(u)' <=> Saved(u)
                    /\ IsRemoved(u)' <=> IsRemoved(u)
  BY <1>4 DEF Saved, IsRemoved
<1>8. \A y \in put' : /\ y.tx \notin seen /\ y.row.idx # 0
                      /\ y.row.status = "N" /\ y.row.retry = 0
  BY <1>1, <1>3, <1>4
<1> QED
  BY <1>4, <1>5, <1>6, <1>7, <1>8, MovesKeep

\* A new row takes an index that is free.  Nothing is computed for it or
\* saved over it yet, and a send that has read it when it was in the table
\* before finds another status.
LEMMA InsertKeeps ==
  ASSUME IndInv, NEW x \in Copy, CanInsert(x), x.row.idx # 0,
         x.row.status = "N", row' = [row EXCEPT ![x.tx] = x.row]
  PROVE  /\ row' \in [Tx -> Row] /\ Unique' /\ row'[x.tx] = x.row
         /\ \A u \in Tx : u # x.tx => row'[u] = row[u]
         /\ \A t \in Tx : Saved(t)' <=> Saved(t) \/ t = x.tx
         /\ \A t \in Tx : Stays(t)
         /\ SavesInPlace /\ \A y \in saves : y.tx # x.tx
         /\ \A y \in sending : /\ Copied(y) => Copied(y)'
                               /\ Computing(y) => Computing(y)'
<1>1. x.tx \in Tx /\ x.row \in Row
  BY DEF Copy
<1>2. row \in [Tx -> Row]
  BY Facts
<1>3. row' \in [Tx -> Row] /\ row'[x.tx] = x.row
  BY <1>1, <1>2
<1>4. \A u \in Tx : u # x.tx => row'[u] = row[u]
  BY <1>2
<1>5. row[x.tx].idx = 0 /\ \A u \in Tx : row[u].idx # x.row.idx
  BY DEF CanInsert, Saved
<1>6. row[x.tx].status = "none"
  BY <1>1, <1>5 DEF IndInv, Unique, Saved
<1>7. \A t \in Tx : Saved(t)' <=> Saved(t) \/ t = x.tx
  BY <1>3, <1>4 DEF Saved
<1>8. Unique'
  <2>1. \A t \in Tx : Saved(t)' <=> row'[t].status # "none"
    <3>1. \A t \in Tx : Saved(t) <=> row[t].status # "none"
      BY DEF IndInv, Unique
    <3> QED
      BY <1>3, <1>4, <3>1 DEF Saved
  <2>2. ASSUME NEW t \in Tx, NEW u \in Tx, Saved(t)', row'[t].idx = row'[u].idx
        PROVE  t = u
    BY <1>3, <1>4, <1>5, <2>2 DEF IndInv, Unique, Saved
  <2> QED
    BY <2>1, <2>2 DEF Unique
<1>9. \A t \in Tx : Stays(t)
  BY <1>4, <1>5 DEF Stays, Saved
<1>10. SavesInPlace /\ \A y \in saves : y.tx # x.tx
  BY <1>5 DEF IndInv, SavesInPlace
<1>11. ASSUME NEW y \in sending
       PROVE  /\ Copied(y) => Copied(y)'
              /\ Computing(y) => Computing(y)'
  <2>1. y.tx \in Tx
    BY Facts
  <2>2. CASE y.tx # x.tx
    BY <1>4, <2>1, <2>2 DEF Copied, Unchanged, Changed, Computing
  <2>3. CASE y.tx = x.tx
    BY <1>3, <1>5, <1>6, <2>3 DEF Copied, Unchanged, Changed, Computing
  <2> QED
    BY <2>2, <2>3
<1> QED
  BY <1>3, <1>4, <1>7, <1>8, <1>9, <1>10, <1>11

LEMMA PutCreateKeeps ==
  ASSUME IndInv, NEW x \in put, PutCreate(x)
  PROVE  Kept
<1>1. /\ put' = {}
      /\ UNCHANGED <<removed, chain, jobs, marks, saves, tick, held, pushes, faults>>
  BY DEF PutCreate
<1>2. /\ x \in Copy /\ x.tx \in Tx /\ x.row \in Row
      /\ x.tx \notin seen /\ x.row.idx # 0 /\ x.row.status = "N"
      /\ x.row.retry = 0
  BY Facts DEF IndInv, Fresh, TypeOK
<1>3. CASE ~CanInsert(x)
  <2>1. UNCHANGED <<row, seen, sending>>
    BY <1>3 DEF PutCreate
  <2>2. TypeOK'
    BY <1>1, <2>1 DEF IndInv, TypeOK
  <2> QED
    BY <1>1, <2>1, <2>2, SameRemoved, SameRows
<1>4. CASE CanInsert(x)
  <2> DEFINE new == [by |-> "MonitorChain", tx |-> x.tx, copy |-> x,
                     stage |-> "copied"]
  <2>1. /\ row' = [row EXCEPT ![x.tx] = x.row]
        /\ seen' = seen \cup {x.tx}
        /\ sending' = sending \cup {new}
    BY <1>4 DEF PutCreate
  <2>2. /\ row' \in [Tx -> Row] /\ Unique' /\ row'[x.tx] = x.row
        /\ \A u \in Tx : u # x.tx => row'[u] = row[u]
        /\ \A t \in Tx : Saved(t)' <=> Saved(t) \/ t = x.tx
        /\ \A t \in Tx : Stays(t)
        /\ SavesInPlace /\ \A y \in saves : y.tx # x.tx
        /\ \A y \in sending : /\ Copied(y) => Copied(y)'
                              /\ Computing(y) => Computing(y)'
    BY <1>2, <1>4, <2>1, InsertKeeps
  <2>3. new \in Send
    BY <1>2 DEF Send
  <2>4. TypeOK'
    BY <1>1, <1>2, <2>1, <2>2, <2>3 DEF IndInv, TypeOK
  <2>5. \A t \in Tx : IsRemoved(t)' <=> IsRemoved(t)
    BY <1>1, SameRemoved
  <2>6. \A y \in sending \cup held : y.tx \in seen
    BY DEF IndInv, Fresh
  <2>7. Fresh'
    BY <1>1, <2>1, <2>2, <2>5, <2>6 DEF IndInv, Fresh
  <2>8. Copied(new)'
    BY <1>2, <2>2, Constants DEF Copied, Unchanged
  <2>9. Sends'
    <3>1. \A y, z \in sending' : y.tx = z.tx => y = z
      BY <1>2, <2>1, <2>6 DEF IndInv, Sends
    <3>2. ASSUME NEW y \in sending'
          PROVE  /\ y.copy.tx = y.tx
                 /\ y.stage = "copied" => Copied(y)'
                 /\ y.stage \in {"taken", "read"} => Computing(y)'
      <4>1. CASE y = new
        BY <2>8, <4>1
      <4>2. CASE y \in sending
        <5>1. /\ y.copy.tx = y.tx
              /\ y.stage = "copied" => Copied(y)
              /\ y.stage \in {"taken", "read"} => Computing(y)
          BY <4>2 DEF IndInv, Sends
        <5> QED
          BY <2>2, <4>2, <5>1
      <4> QED
        BY <2>1, <4>1, <4>2
    <3> QED
      BY <3>1, <3>2 DEF Sends
  <2>10. SavesInPlace'
    <3>1. \A y \in saves : y.tx \in Tx
      BY Facts
    <3> QED
      BY <1>1, <2>2, <3>1 DEF SavesInPlace
  <2>11. \A y \in held : y.tx \in Tx /\ y.tx # x.tx
    BY <1>2, <2>6, Facts
  <2>12. Removing'
    BY <1>1, <1>2, <2>1, <2>2, <2>11 DEF IndInv, Removing
  <2>13. PuttingBack' /\ OneHeld'
    BY <1>1, <2>2, <2>11 DEF IndInv, PuttingBack, OneHeld
  <2>14. NeverLost'
    BY <2>1, <2>2, <2>5, Facts DEF IndInv, NeverLost
  <2> QED
    BY <2>2, <2>4, <2>7, <2>9, <2>10, <2>12, <2>13, <2>14 DEF Kept, IndInv
<1> QED
  BY <1>3, <1>4

LEMMA PushBackPutKeeps ==
  ASSUME IndInv, NEW x \in held, PushBackPut(x)
  PROVE  Kept
<1>1. /\ tick = "put"
      /\ UNCHANGED <<removed, seen, chain, jobs, put, sending, marks, saves, pushes>>
      /\ faults' = faults \/ Fault
  BY DEF PushBackPut
<1>2. x \in Copy /\ x.tx \in Tx /\ x.row.idx # 0 /\ x.row.status = "N"
  BY <1>1, Facts DEF IndInv, PuttingBack, TypeOK
<1>3. faults' \in 0..MaxFaults
  BY <1>1, FaultBound DEF IndInv, TypeOK
<1>4. CASE tick' = "remove"
  <2>1. row' = row /\ held' = {}
    BY <1>4 DEF PushBackPut
  <2>2. TypeOK'
    BY <1>1, <1>3, <1>4, <2>1 DEF IndInv, TypeOK
  <2> QED
    BY <1>1, <1>4, <2>1, <2>2, SameRemoved, SameRows
<1>5. CASE tick' # "remove"
  <2>1. /\ CanInsert(x) /\ row' = [row EXCEPT ![x.tx] = x.row]
        /\ tick' = "drop" /\ held' = held
    BY <1>5 DEF PushBackPut
  <2>2. /\ row' \in [Tx -> Row] /\ Unique' /\ row'[x.tx] = x.row
        /\ \A u \in Tx : u # x.tx => row'[u] = row[u]
        /\ \A t \in Tx : Saved(t)' <=> Saved(t) \/ t = x.tx
        /\ \A t \in Tx : Stays(t)
        /\ SavesInPlace /\ \A y \in saves : y.tx # x.tx
        /\ \A y \in sending : /\ Copied(y) => Copied(y)'
                              /\ Computing(y) => Computing(y)'
    BY <1>2, <2>1, InsertKeeps
  <2>3. TypeOK'
    BY <1>1, <1>3, <2>1, <2>2 DEF IndInv, TypeOK
  <2>4. \A t \in Tx : IsRemoved(t)' <=> IsRemoved(t)
    BY <1>1, SameRemoved
  <2>5. x.tx \in seen
    BY DEF IndInv, Fresh
  <2>6. Fresh'
    BY <1>1, <2>1, <2>2, <2>4, <2>5 DEF IndInv, Fresh
  <2>7. Sends'
    <3>1. \A y, z \in sending' : y.tx = z.tx => y = z
      BY <1>1 DEF IndInv, Sends
    <3>2. ASSUME NEW y \in sending'
          PROVE  /\ y.copy.tx = y.tx
                 /\ y.stage = "copied" => Copied(y)'
                 /\ y.stage \in {"taken", "read"} => Computing(y)'
      <4>1. /\ y.copy.tx = y.tx
            /\ y.stage = "copied" => Copied(y)
            /\ y.stage \in {"taken", "read"} => Computing(y)
        BY <1>1 DEF IndInv, Sends
      <4> QED
        BY <1>1, <2>2, <4>1
    <3> QED
      BY <3>1, <3>2 DEF Sends
  <2>8. SavesInPlace'
    <3>1. \A y \in saves : y.tx \in Tx
      BY Facts
    <3> QED
      BY <1>1, <2>2, <3>1 DEF SavesInPlace
  <2>9. Removing'
    BY <2>1 DEF Removing
  <2>10. PuttingBack' /\ OneHeld'
    BY <1>1, <2>1, <2>2 DEF IndInv, PuttingBack, OneHeld
  <2>11. NeverLost'
    BY <1>1, <2>2, <2>4, Facts DEF IndInv, NeverLost
  <2> QED
    BY <2>2, <2>3, <2>6, <2>7, <2>8, <2>9, <2>10, <2>11 DEF Kept, IndInv
<1> QED
  BY <1>4, <1>5

-----------------------------------------------------------------------------
(***************************************************************************)
(* Sends.                                                                  *)
(***************************************************************************)
LEMMA RootTypes ==
  ASSUME IndInv, NEW p \in Tx
  PROVE  RootsAfter(p) \subseteq Root
<1>1. row[p].base \in Root /\ seen \in SUBSET Tx
  BY Facts, RowTypes
<1>2. CASE IsTree(row[p].base)
  BY <1>1, <1>2 DEF RootsAfter, IsTree, Root
<1>3. CASE ~IsTree(row[p].base)
  BY <1>1, <1>3 DEF RootsAfter, Root
<1> QED
  BY <1>2, <1>3

\* A send takes the place of one of the same row, or is the first of its row.
LEMMA SendsKept ==
  ASSUME IndInv, NEW x \in sending, NEW y, y.tx = x.tx,
         sending' = (sending \ {x}) \cup {y},
         y.copy.tx = y.tx,
         y.stage = "copied" => Copied(y)',
         y.stage \in {"taken", "read"} => Computing(y)',
         \A t \in Tx : t # x.tx => row'[t] = row[t]
  PROVE  Sends'
<1>1. \A z \in sending : z.tx \in Tx
  BY Facts
<1>2. \A z, w \in sending : z.tx = w.tx => z = w
  BY DEF IndInv, Sends
<1>3. \A z, w \in sending' : z.tx = w.tx => z = w
  BY <1>2
<1>4. ASSUME NEW z \in sending'
      PROVE  /\ z.copy.tx = z.tx
             /\ z.stage = "copied" => Copied(z)'
             /\ z.stage \in {"taken", "read"} => Computing(z)'
  <2>1. CASE z = y
    BY <2>1
  <2>2. CASE z # y
    <3>1. z \in sending /\ z.tx # x.tx
      BY <1>2, <2>2
    <3>2. row'[z.tx] = row[z.tx]
      BY <1>1, <3>1
    <3>3. /\ z.copy.tx = z.tx
          /\ z.stage = "copied" => Copied(z)
          /\ z.stage \in {"taken", "read"} => Computing(z)
      BY <3>1 DEF IndInv, Sends
    <3> QED
      BY <3>2, <3>3 DEF Copied, Unchanged, Changed, Computing
  <2> QED
    BY <2>1, <2>2
<1> QED
  BY <1>3, <1>4 DEF Sends

\* A row that a send writes keeps its index and is not the one to be removed.
LEMMA WriteKeeps ==
  ASSUME IndInv, TypeOK', NEW t \in Tx, row[t].idx # 0,
         row'[t].idx = row[t].idx, row'[t].status \notin {"none", "N"},
         \A u \in Tx : u # t => row'[u] = row[u],
         tick = "delete" => \A x \in held : x.tx # t,
         UNCHANGED <<removed, seen, put, saves, tick, held>>,
         \A y \in sending' : \/ y \in sending
                             \/ y.tx = t,
         Sends'
  PROVE  Kept
<1>1. \A u \in Tx : row'[u].idx = row[u].idx
  OBVIOUS
<1>2. /\ \A x \in sending : x.tx \in Tx
      /\ \A x \in saves : x.tx \in Tx
      /\ \A x \in held : x.tx \in Tx
      /\ \A u \in seen : u \in Tx
  BY Facts
<1>3. Unique'
  BY <1>1 DEF IndInv, Unique, Saved
<1>4. Fresh'
  BY <1>1 DEF IndInv, Fresh, Saved, IsRemoved
<1>5. SavesInPlace'
  BY <1>1, <1>2 DEF IndInv, SavesInPlace
<1>6. Removing'
  <2>1. SUFFICES ASSUME tick = "delete", NEW x \in held
                 PROVE  /\ x.row.idx # 0 /\ row'[x.tx].idx = x.row.idx
                        /\ x.row.status = "TBR" /\ row'[x.tx].status = "TBR"
                        /\ \A y \in saves : y.tx # x.tx
                        /\ \A y \in sending' :
                             y.tx = x.tx => y.stage \in {"copied", "saved"}
    BY DEF Removing
  <2>2. x.tx \in Tx /\ x.tx # t
    BY <1>2, <2>1
  <2> QED
    BY <2>1, <2>2 DEF IndInv, Removing
<1>7. PuttingBack' /\ OneHeld'
  BY <1>1, <1>2 DEF IndInv, PuttingBack, OneHeld, Saved
<1>8. NeverLost'
  BY <1>1, <1>2 DEF IndInv, NeverLost, Saved, IsRemoved
<1>9. \A u \in Tx : Stays(u)
  BY <1>1 DEF Stays
<1> QED
  BY <1>3, <1>4, <1>5, <1>6, <1>7, <1>8, <1>9 DEF Kept, IndInv

LEMMA GetFirstFailedKeeps ==
  ASSUME IndInv, NEW t \in Tx, GetFirstFailedPolyTx(t)
  PROVE  Kept
<1> DEFINE new == [by |-> "MonitorFailedPolyTx", tx |-> t, copy |-> CopyOf(t),
                   stage |-> "copied"]
<1>1. /\ row[t].status \in {"N", "P", "F"} /\ row[t].retry < MaxRetry
      /\ \A x \in sending : x.tx # t
      /\ sending' = sending \cup {new}
      /\ UNCHANGED <<row, removed, seen, chain, jobs, put, marks, saves, tick,
                     held, pushes, faults>>
  BY DEF GetFirstFailedPolyTx, Stale
<1>2. new \in Send /\ CopyOf(t).row = row[t] /\ CopyOf(t).tx = t
  BY Facts DEF CopyOf, Send, Copy
<1>3. TypeOK'
  BY <1>1, <1>2 DEF IndInv, TypeOK
<1>4. Saved(t)
  BY <1>1 DEF IndInv, Unique
<1>5. Copied(new)
  BY <1>1, <1>2 DEF Copied, Unchanged
<1>6. Fresh'
  BY <1>1, <1>4 DEF IndInv, Fresh, Saved, IsRemoved
<1>7. Sends'
  <2>1. \A y, z \in sending' : y.tx = z.tx => y = z
    BY <1>1 DEF IndInv, Sends
  <2>2. ASSUME NEW y \in sending'
        PROVE  /\ y.copy.tx = y.tx
               /\ y.stage = "copied" => Copied(y)'
               /\ y.stage \in {"taken", "read"} => Computing(y)'
    <3>1. CASE y = new
      BY <1>1, <1>2, <1>5, <3>1 DEF Copied, Unchanged, Changed
    <3>2. CASE y \in sending
      BY <1>1, <3>2 DEF IndInv, Sends, Copied, Unchanged, Changed, Computing
    <3> QED
      BY <1>1, <3>1, <3>2
  <2> QED
    BY <2>1, <2>2 DEF Sends
<1>8. Removing'
  BY <1>1 DEF IndInv, Removing
<1>9. /\ Unique' /\ SavesInPlace' /\ PuttingBack' /\ OneHeld' /\ NeverLost'
      /\ \A u \in Tx : Stays(u)
  BY <1>1 DEF IndInv, Unique, SavesInPlace, PuttingBack, OneHeld, NeverLost, Stays,
              Saved, IsRemoved
<1> QED
  BY <1>3, <1>6, <1>7, <1>8, <1>9 DEF Kept, IndInv

\* The row has an attempt left: it has not changed since it was copied.
LEMMA SetProcessingKeeps ==
  ASSUME IndInv, NEW x \in sending, SetPolyTxStatusProcessing(x)
  PROVE  Kept
<1> DEFINE t == x.tx
           r == row[t].retry + 1
           y == [x EXCEPT !.stage = "taken"]
<1>1. /\ x.stage = "copied" /\ row[t].status = x.copy.row.status
      /\ row' = [row EXCEPT ![t] = [row[t] EXCEPT !.status = "P", !.retry = r]]
      /\ UNCHANGED <<removed, seen, chain, put, marks, saves, tick, held, pushes,
                     faults>>
  BY DEF SetPolyTxStatusProcessing, SendAt
<1>2. /\ x \in Send /\ t \in Tx /\ x.copy.row \in Row /\ row[t] \in Row
      /\ row \in [Tx -> Row] /\ row[t].retry \in 0..MaxRetry
  BY Facts, RowTypes
<1>3. Copied(x) /\ x.copy.tx = x.tx
  BY <1>1 DEF IndInv, Sends
<1>4. Unchanged(x) /\ x.copy.row.status \in {"N", "P", "F"}
      /\ x.copy.row.retry < MaxRetry
  BY <1>1, <1>3 DEF Copied, Changed
<1>5. r \in 0..MaxRetry
  BY <1>2, <1>4, Constants DEF Unchanged
<1> HIDE DEF r
<1>6. /\ row'[t] = [row[t] EXCEPT !.status = "P", !.retry = r]
      /\ \A u \in Tx : u # t => row'[u] = row[u]
  BY <1>1, <1>2
<1>7. /\ row'[t] \in Row /\ row'[t].idx = row[t].idx
      /\ row'[t].status = "P" /\ row'[t].base = row[t].base
  BY <1>2, <1>5, <1>6 DEF Row
<1>8. row' \in [Tx -> Row]
  BY <1>1, <1>2, <1>6, <1>7
<1>9. row[t].idx # 0
  BY <1>1, <1>2, <1>4 DEF IndInv, Unique, Saved
<1>10. tick = "delete" => \A z \in held : z.tx # t
  BY <1>1, <1>4 DEF IndInv, Removing
<1>11. x.copy.row.base \in Root
  BY <1>2, RowTypes
<1>12. CASE x.copy.row.base # NoRoot
  <2>1. /\ jobs' = jobs \cup {JobOf(t, r, x.copy.row.base)}
        /\ sending' = sending \ {x}
    BY <1>12 DEF SetPolyTxStatusProcessing, EndSend, r
  <2>2. JobOf(t, r, x.copy.row.base) \in Job
    BY <1>2, <1>5, <1>11 DEF JobOf, Job
  <2>3. TypeOK'
    BY <1>1, <1>8, <2>1, <2>2 DEF IndInv, TypeOK
  <2>4. \A z \in sending' : z \in sending /\ z.tx # t /\ z.tx \in Tx
    BY <2>1, Facts DEF IndInv, Sends
  <2>5. Sends'
    <3>1. \A z, w \in sending' : z.tx = w.tx => z = w
      BY <2>4 DEF IndInv, Sends
    <3>2. ASSUME NEW z \in sending'
          PROVE  /\ z.copy.tx = z.tx
                 /\ z.stage = "copied" => Copied(z)'
                 /\ z.stage \in {"taken", "read"} => Computing(z)'
      <4>1. row'[z.tx] = row[z.tx] /\ z \in sending
        BY <1>6, <2>4
      <4> QED
        BY <4>1 DEF IndInv, Sends, Copied, Unchanged, Changed, Computing
    <3> QED
      BY <3>1, <3>2 DEF Sends
  <2> QED
    BY <1>1, <1>2, <1>6, <1>7, <1>9, <1>10, <2>3, <2>4, <2>5, WriteKeeps
<1>13. CASE x.copy.row.base = NoRoot
  <2>1. jobs' = jobs /\ sending' = (sending \ {x}) \cup {y}
    BY <1>13 DEF SetPolyTxStatusProcessing, MoveSend
  <2>2. y \in Send /\ y.tx = t /\ y.copy = x.copy /\ y.stage = "taken"
    BY <1>2 DEF Send
  <2>3. TypeOK'
    BY <1>1, <1>8, <2>1, <2>2 DEF IndInv, TypeOK
  <2>4. Computing(y)'
    BY <1>4, <1>7, <1>9, <1>13, <2>2 DEF Computing, Unchanged
  <2>5. Sends'
    BY <1>3, <1>6, <2>1, <2>2, <2>4, SendsKept
  <2>6. \A z \in sending' : z \in sending \/ z.tx = t
    BY <2>1, <2>2
  <2> QED
    BY <1>1, <1>2, <1>6, <1>7, <1>9, <1>10, <2>3, <2>5, <2>6, WriteKeeps
<1> QED
  BY <1>12, <1>13

\* The row at the index is that of the send.
LEMMA RootReadKeeps ==
  ASSUME IndInv, NEW x \in sending, RootRead(x)
  PROVE  Kept
<1>1. PICK t \in Tx :
        /\ row[t].idx = x.copy.row.idx
        /\ \E base \in IF Previous(row[t].idx) = {} THEN {{}}
                       ELSE UNION {RootsAfter(p) : p \in Previous(row[t].idx)} :
             MoveSend(x, [x EXCEPT !.stage = "read", !.copy.tx = t,
                            !.copy.row = [row[t] EXCEPT !.base = base]])
  BY DEF RootRead
<1>2. PICK base \in IF Previous(row[t].idx) = {} THEN {{}}
                    ELSE UNION {RootsAfter(p) : p \in Previous(row[t].idx)} :
        MoveSend(x, [x EXCEPT !.stage = "read", !.copy.tx = t,
                       !.copy.row = [row[t] EXCEPT !.base = base]])
  BY <1>1
<1>3. /\ x.stage = "taken" /\ x \in sending
      /\ UNCHANGED <<row, removed, seen, chain, jobs, put, marks, saves, tick, held,
                     pushes, faults>>
  BY DEF RootRead, SendAt
<1>4. Computing(x)
  BY <1>3 DEF IndInv, Sends
<1>5. x.tx \in Tx /\ x \in Send /\ row[t] \in Row
  BY Facts
<1>6. t = x.tx
  BY <1>1, <1>4, <1>5 DEF IndInv, Unique, Saved, Computing
<1>7. base \in Root
  <2>1. Previous(row[t].idx) \subseteq Tx
    BY DEF Previous
  <2>2. CASE Previous(row[t].idx) = {}
    BY <1>2, <2>2 DEF Root
  <2>3. CASE Previous(row[t].idx) # {}
    <3>1. PICK p \in Previous(row[t].idx) : base \in RootsAfter(p)
      BY <1>2, <2>3
    <3> QED
      BY <2>1, <3>1, RootTypes
  <2> QED
    BY <2>2, <2>3
<1>8. /\ [row[t] EXCEPT !.base = base] \in Row
      /\ [row[t] EXCEPT !.base = base].idx = row[t].idx
      /\ [row[t] EXCEPT !.base = base].status = row[t].status
  BY <1>5, <1>7 DEF Row
<1>9. PICK w : /\ w = [row[t] EXCEPT !.base = base]
               /\ w \in Row /\ w.idx = row[t].idx /\ w.status = row[t].status
  BY <1>8
<1>10. PICK y : y = [x EXCEPT !.stage = "read", !.copy.tx = t, !.copy.row = w]
  OBVIOUS
<1>11. sending' = (sending \ {x}) \cup {y}
  BY <1>2, <1>9, <1>10 DEF MoveSend
<1>12. /\ y.tx = x.tx /\ y.stage = "read"
       /\ y.copy.tx = t /\ y.copy.row = w
       /\ y \in Send
  BY <1>5, <1>9, <1>10 DEF Send, Copy
<1>13. TypeOK'
  BY <1>3, <1>11, <1>12 DEF IndInv, TypeOK
<1>14. row[t].status \notin {"none", "N"}
  BY <1>4, <1>6 DEF Computing, IndInv, Unique, Saved
<1>15. Computing(y)'
  BY <1>3, <1>4, <1>6, <1>9, <1>12, <1>14 DEF Computing
<1>16. Sends'
  BY <1>3, <1>6, <1>11, <1>12, <1>15, SendsKept
<1>17. tick = "delete" => \A z \in held : z.tx # t
  BY <1>3, <1>6 DEF IndInv, Removing
<1>18. \A z \in sending' : z \in sending \/ z.tx = t
  BY <1>6, <1>11, <1>12
<1> QED
  BY <1>3, <1>4, <1>6, <1>13, <1>14, <1>16, <1>17, <1>18, WriteKeeps
     DEF Computing

\* Save writes the row that was read, where it is.
LEMMA SaveInPlace ==
  ASSUME IndInv, NEW x, x.tx \in Tx, x.row \in Row, row[x.tx].idx = x.row.idx,
         x.row.idx # 0, Save(x)
  PROVE  /\ row' \in [Tx -> Row] /\ row'[x.tx] = x.row
         /\ \A u \in Tx : u # x.tx => row'[u] = row[u]
<1>1. row' = [t \in Tx |-> IF t = x.tx THEN x.row
                           ELSE IF row[t].idx = x.row.idx THEN NoRow ELSE row[t]]
  BY DEF Save
<1>2. \A u \in Tx : u # x.tx => row[u].idx # x.row.idx
  BY DEF IndInv, Unique, Saved
<1>3. row'[x.tx] = x.row
  BY <1>1
<1>4. \A u \in Tx : u # x.tx => row'[u] = row[u]
  BY <1>1, <1>2
<1>5. row' \in [Tx -> Row]
  BY <1>1, <1>2, Facts
<1> QED
  BY <1>3, <1>4, <1>5

LEMMA RootSaveKeeps ==
  ASSUME IndInv, NEW x \in sending, RootSave(x)
  PROVE  Kept
<1> DEFINE y == [x EXCEPT !.stage = "saved"]
<1>1. /\ x.stage = "read" /\ Save(x.copy)
      /\ sending' = (sending \ {x}) \cup {y}
      /\ UNCHANGED <<removed, seen, chain, jobs, put, marks, saves, tick, held,
                     pushes, faults>>
  BY DEF RootSave, SendAt, MoveSend
<1>2. Computing(x) /\ x.copy.tx = x.tx
  BY <1>1 DEF IndInv, Sends
<1>3. x \in Send /\ x.tx \in Tx /\ x.copy.row \in Row
  BY Facts
<1>4. /\ row[x.tx].idx # 0 /\ row[x.tx].idx = x.copy.row.idx
      /\ x.copy.row.status \notin {"none", "N"}
  BY <1>1, <1>2 DEF Computing
<1>5. /\ row' \in [Tx -> Row] /\ row'[x.tx] = x.copy.row
      /\ \A u \in Tx : u # x.tx => row'[u] = row[u]
  BY <1>1, <1>2, <1>3, <1>4, SaveInPlace
<1>6. y \in Send /\ y.tx = x.tx /\ y.copy = x.copy /\ y.stage = "saved"
  BY <1>3 DEF Send
<1>7. TypeOK'
  BY <1>1, <1>5, <1>6 DEF IndInv, TypeOK
<1>8. Sends'
  BY <1>1, <1>2, <1>5, <1>6, SendsKept
<1>9. tick = "delete" => \A z \in held : z.tx # x.tx
  BY <1>1 DEF IndInv, Removing
<1> QED
  BY <1>1, <1>3, <1>4, <1>5, <1>6, <1>7, <1>8, <1>9, WriteKeeps

\* The row has been taken by another, or a statement of the send fails.
LEMMA EndSendKeeps ==
  ASSUME IndInv, NEW x \in sending, NotTaken(x) \/ SendFails(x)
  PROVE  Kept
<1>1. /\ sending' \subseteq sending
      /\ UNCHANGED <<row, removed, seen, chain, jobs, put, marks, saves, tick, held,
                     pushes>>
      /\ faults' = faults \/ Fault
  BY DEF NotTaken, SendFails, EndSend
<1>2. faults' \in 0..MaxFaults
  BY <1>1, FaultBound DEF IndInv, TypeOK
<1>3. TypeOK'
  BY <1>1, <1>2 DEF IndInv, TypeOK
<1> QED
  BY <1>1, <1>3, SameRemoved, SameRows

LEMMA SendWithRootKeeps ==
  ASSUME IndInv, NEW x \in sending, SendWithRoot(x)
  PROVE  Kept
<1>1. /\ sending' \subseteq sending
      /\ jobs' = jobs \cup {JobOf(x.tx, row[x.tx].retry, row[x.tx].base)}
      /\ UNCHANGED <<row, removed, seen, chain, put, marks, saves, tick, held,
                     pushes, faults>>
  BY DEF SendWithRoot, EndSend
<1>2. x.tx \in Tx /\ row[x.tx].retry \in 0..MaxRetry /\ row[x.tx].base \in Root
  BY Facts, RowTypes
<1>3. JobOf(x.tx, row[x.tx].retry, row[x.tx].base) \in Job
  BY <1>2 DEF JobOf, Job
<1>4. TypeOK'
  BY <1>1, <1>3 DEF IndInv, TypeOK
<1> QED
  BY <1>1, <1>4, SameRemoved, SameRows

-----------------------------------------------------------------------------
(***************************************************************************)
(* Settling, and the bulk update.                                          *)
(***************************************************************************)
LEMMA JobRunsKeeps ==
  ASSUME IndInv, NEW j \in jobs, JobRuns(j)
  PROVE  Kept
<1>1. j \in Job /\ j.tx \in Tx
  BY DEF IndInv, TypeOK, Job
<1>2. \A f \in {"executed", "failed"} : [j EXCEPT !.fate = f] \in Job
  BY <1>1 DEF Job
<1>3. jobs' \subseteq jobs \cup {[j EXCEPT !.fate = "executed"],
                                 [j EXCEPT !.fate = "failed"]}
  BY DEF JobRuns
<1>4. chain' \subseteq chain \cup {j.tx}
  BY DEF JobRuns
<1>5. UNCHANGED <<row, removed, seen, put, sending, marks, saves, tick, held,
                  pushes, faults>>
  BY DEF JobRuns
<1>6. TypeOK'
  BY <1>1, <1>2, <1>3, <1>4, <1>5 DEF IndInv, TypeOK
<1> QED
  BY <1>5, <1>6, SameRemoved, SameRows

LEMMA SettleKeeps ==
  ASSUME IndInv, NEW j \in jobs, Settle(j)
  PROVE  Kept
<1>1. j \in Job /\ j.tx \in Tx
  BY DEF IndInv, TypeOK, Job
<1>2. row \in [Tx -> Row] /\ row[j.tx] \in Row
  BY <1>1, Facts
<1>3. /\ jobs' = jobs \ {j}
      /\ UNCHANGED <<removed, seen, chain, put, sending, saves, tick, held, pushes,
                     faults>>
  BY DEF Settle
<1>4. marks' \in SUBSET Nat
  <2>1. row[j.tx].idx \in Nat /\ marks \in SUBSET Nat
    BY <1>2, RowTypes DEF IndInv, TypeOK
  <2>2. marks' \subseteq marks \cup {row[j.tx].idx}
    BY DEF Settle
  <2> QED
    BY <2>1, <2>2
<1>5. row' \in [Tx -> Row] /\ \A t \in Tx : Moves(t)
  <2>1. CASE row[j.tx].status # "P"
    <3>1. row' = row
      BY <2>1 DEF Settle
    <3> QED
      BY <1>2, <3>1 DEF Moves, Reset
  <2>2. CASE row[j.tx].status = "P"
    <3>1. PICK s \in {"D", "F"} : row' = [row EXCEPT ![j.tx].status = s]
      BY <2>2 DEF Settle
    <3>2. /\ row'[j.tx] = [row[j.tx] EXCEPT !.status = s]
          /\ \A t \in Tx : t # j.tx => row'[t] = row[t]
      BY <1>1, <1>2, <3>1
    <3>3. /\ row'[j.tx] \in Row /\ row'[j.tx].idx = row[j.tx].idx
          /\ row'[j.tx].base = row[j.tx].base /\ row'[j.tx].status = s
      BY <1>2, <3>2 DEF Row
    <3>4. row' \in [Tx -> Row]
      BY <1>1, <1>2, <3>1, <3>2, <3>3
    <3>5. Moves(j.tx)
      BY <2>2, <3>3 DEF Moves, Processed, Failed
    <3>6. \A t \in Tx : t # j.tx => Moves(t)
      BY <3>2 DEF Moves, Reset
    <3> QED
      BY <3>4, <3>5, <3>6
  <2> QED
    BY <2>1, <2>2
<1>6. TypeOK'
  BY <1>3, <1>4, <1>5 DEF IndInv, TypeOK
<1>7. \A t \in Tx : Saved(t)' <=> Saved(t)
  <2>1. \A t \in Tx : row'[t].idx = row[t].idx
    BY <1>1, <1>2 DEF Settle
  <2> QED
    BY <2>1 DEF Saved
<1>8. \A t \in Tx : IsRemoved(t)' <=> IsRemoved(t)
  BY <1>3, SameRemoved
<1>9. \A y \in put' : /\ y.tx \notin seen /\ y.row.idx # 0
                      /\ y.row.status = "N" /\ y.row.retry = 0
  BY <1>3 DEF IndInv, Fresh
<1> QED
  BY <1>3, <1>5, <1>6, <1>7, <1>8, <1>9, MovesKeep

LEMMA MarkReadKeeps ==
  ASSUME IndInv, NEW i \in marks, MarkRead(i)
  PROVE  Kept
<1>1. PICK L \in SUBSET UnprocessedBefore(i) :
        saves' = saves \cup {CopyOf(t) : t \in L}
  BY DEF MarkRead
<1>2. /\ marks' = marks \ {i}
      /\ UNCHANGED <<row, removed, seen, chain, jobs, put, sending, tick, held,
                     pushes, faults>>
  BY DEF MarkRead
<1>3. \A t \in L : /\ t \in Tx /\ row[t].idx # 0 /\ row[t].status \in {"P", "F"}
                   /\ CopyOf(t) \in Copy
                   /\ CopyOf(t).tx = t /\ CopyOf(t).row = row[t]
  BY Facts DEF UnprocessedBefore, Saved, CopyOf, Copy
<1>4. \A x \in saves' : \/ x \in saves
                        \/ /\ x.tx \in Tx /\ x.row = row[x.tx] /\ x \in Copy
                           /\ row[x.tx].idx # 0 /\ row[x.tx].status \in {"P", "F"}
  BY <1>1, <1>3
<1>5. TypeOK'
  BY <1>2, <1>4 DEF IndInv, TypeOK
<1>6. SavesInPlace'
  BY <1>2, <1>4 DEF IndInv, SavesInPlace
<1>7. Removing'
  BY <1>2, <1>4 DEF IndInv, Removing
<1>8. Fresh' /\ Unique'
  BY <1>2 DEF IndInv, Fresh, Unique, Saved, IsRemoved
<1>9. /\ PuttingBack' /\ OneHeld' /\ NeverLost' /\ \A t \in Tx : Stays(t)
  BY <1>2 DEF IndInv, PuttingBack, OneHeld, NeverLost, Stays, Saved, IsRemoved
<1>10. Sends'
  BY <1>2 DEF IndInv, Sends, Copied, Unchanged, Changed, Computing
<1> QED
  BY <1>5, <1>6, <1>7, <1>8, <1>9, <1>10 DEF Kept, IndInv

LEMMA MarkSaveKeeps ==
  ASSUME IndInv, NEW x \in saves, MarkSave(x)
  PROVE  Kept
<1> DEFINE y == [x EXCEPT !.row.status = "D"]
<1>1. /\ Save(y) /\ saves' = saves \ {x}
      /\ UNCHANGED <<removed, seen, chain, jobs, put, sending, marks, tick, held,
                     pushes, faults>>
  BY DEF MarkSave
<1>2. x \in Copy /\ x.tx \in Tx /\ x.row \in Row
  BY Facts DEF IndInv, TypeOK
<1>3. /\ y.tx = x.tx /\ y.row \in Row /\ y.row.idx = x.row.idx
      /\ y.row.status = "D"
  BY <1>2 DEF Copy, Row
<1> HIDE DEF y
<1>4. /\ x.row.idx # 0 /\ row[x.tx].idx = x.row.idx /\ row[x.tx].status # "N"
  BY DEF IndInv, SavesInPlace
<1>5. /\ row' \in [Tx -> Row] /\ row'[x.tx] = y.row
      /\ \A u \in Tx : u # x.tx => row'[u] = row[u]
  BY <1>1, <1>2, <1>3, <1>4, SaveInPlace
<1>6. TypeOK'
  BY <1>1, <1>5 DEF IndInv, TypeOK
<1>7. row[x.tx].status # "none"
  BY <1>2, <1>4 DEF IndInv, Unique, Saved
<1>8. Moves(x.tx)
  BY <1>3, <1>4, <1>5, <1>7 DEF Moves, Processed
<1>9. \A t \in Tx : t # x.tx => Moves(t)
  BY <1>5 DEF Moves, Reset
<1>10. \A t \in Tx : row'[t].idx = row[t].idx
  BY <1>3, <1>4, <1>5
<1>11. \A t \in Tx : /\ Saved(t)' <=> Saved(t)
                     /\ IsRemoved(t)' <=> IsRemoved(t)
  BY <1>1, <1>10 DEF Saved, IsRemoved
<1>12. \A z \in put' : /\ z.tx \notin seen /\ z.row.idx # 0
                       /\ z.row.status = "N" /\ z.row.retry = 0
  BY <1>1 DEF IndInv, Fresh
<1>13. \A t \in Tx : Moves(t)
  BY <1>8, <1>9
<1> QED
  BY <1>1, <1>6, <1>11, <1>12, <1>13, MovesKeep

-----------------------------------------------------------------------------
(***************************************************************************)
(* MonitorTimedOutPolyTx.                                                  *)
(***************************************************************************)
\* The root of the row is the on-chain root: no root is computed for it.
LEMMA GetFirstToBeRemovedKeeps ==
  ASSUME IndInv, NEW t \in Tx, GetFirstPolyTxToBeRemoved(t)
  PROVE  Kept
<1>1. /\ tick = "remove" /\ row[t].status = "TBR" /\ \A x \in saves : x.tx # t
      /\ UNCHANGED <<row, removed, seen, chain, jobs, put, sending, marks, saves,
                     pushes>>
      /\ faults' = faults \/ Fault
  BY DEF GetFirstPolyTxToBeRemoved, AskedBefore
<1>2. faults' \in 0..MaxFaults
  BY <1>1, FaultBound DEF IndInv, TypeOK
<1>3. CASE tick' = "push" /\ held' = held
  <2>1. TypeOK'
    BY <1>1, <1>2, <1>3 DEF IndInv, TypeOK
  <2>2. Unique' /\ Fresh' /\ SavesInPlace' /\ Removing' /\ PuttingBack'
    BY <1>1, <1>3 DEF IndInv, Unique, Fresh, SavesInPlace, Removing, PuttingBack,
                      Saved, IsRemoved
  <2>3. Sends' /\ OneHeld' /\ NeverLost' /\ \A u \in Tx : Stays(u)
    BY <1>1, <1>3 DEF IndInv, Sends, Copied, Unchanged, Changed, Computing, OneHeld,
                      NeverLost, Stays, Saved, IsRemoved
  <2> QED
    BY <2>1, <2>2, <2>3 DEF Kept, IndInv
<1>4. CASE /\ row[t].base = chain /\ tick' = "delete" /\ held' = {CopyOf(t)}
           /\ faults' = faults
  <2>1. /\ CopyOf(t).tx = t /\ CopyOf(t).row = row[t] /\ CopyOf(t) \in Copy
    BY Facts DEF CopyOf, Copy
  <2>2. TypeOK'
    BY <1>1, <1>2, <1>4, <2>1 DEF IndInv, TypeOK
  <2>3. row[t].idx # 0 /\ t \in seen
    BY <1>1 DEF IndInv, Unique, Fresh, Saved
  <2>4. row[t].base # NoRoot
    BY <1>4, Constants, Facts
  <2>5. \A y \in sending : y.tx = t => y.stage \in {"copied", "saved"}
    <3>1. SUFFICES ASSUME NEW y \in sending, y.tx = t
                   PROVE  y.stage \in {"copied", "saved"}
      OBVIOUS
    <3>2. y.stage \in {"copied", "taken", "read", "saved"}
      BY Facts DEF Send
    <3>3. ~Computing(y)
      BY <1>1, <2>4, <3>1 DEF Computing
    <3> QED
      BY <3>2, <3>3 DEF IndInv, Sends
  <2>6. Removing'
    BY <1>1, <1>4, <2>1, <2>3, <2>5 DEF Removing
  <2>7. Fresh' /\ PuttingBack' /\ OneHeld'
    BY <1>1, <1>4, <2>1, <2>3 DEF IndInv, Fresh, PuttingBack, OneHeld, Saved, IsRemoved
  <2>8. Unique' /\ SavesInPlace' /\ NeverLost' /\ \A u \in Tx : Stays(u)
    BY <1>1 DEF IndInv, Unique, SavesInPlace, NeverLost, Stays, Saved, IsRemoved
  <2>9. Sends'
    BY <1>1 DEF IndInv, Sends, Copied, Unchanged, Changed, Computing
  <2> QED
    BY <2>2, <2>6, <2>7, <2>8, <2>9 DEF Kept, IndInv
<1> QED
  BY <1>3, <1>4 DEF GetFirstPolyTxToBeRemoved, OnChainRootMatches

\* A query that finds nothing.
LEMMA NothingKeeps ==
  ASSUME IndInv, NoPolyTxToBeRemoved \/ NothingToBePushedBack
  PROVE  Kept
<1>1. /\ tick \in {"remove", "push"} /\ tick' \in {"remove", "push"}
      /\ UNCHANGED <<row, removed, seen, chain, jobs, put, sending, marks, saves,
                     held, pushes, faults>>
  BY DEF NoPolyTxToBeRemoved, NothingToBePushedBack
<1>2. TypeOK'
  BY <1>1 DEF IndInv, TypeOK
<1>3. Unique' /\ Fresh' /\ SavesInPlace' /\ Removing' /\ PuttingBack'
  BY <1>1 DEF IndInv, Unique, Fresh, SavesInPlace, Removing, PuttingBack, Saved,
              IsRemoved
<1>4. Sends' /\ OneHeld' /\ NeverLost' /\ \A u \in Tx : Stays(u)
  BY <1>1 DEF IndInv, Sends, Copied, Unchanged, Changed, Computing, OneHeld,
              NeverLost, Stays, Saved, IsRemoved
<1> QED
  BY <1>2, <1>3, <1>4 DEF Kept, IndInv

LEMMA RemovePolyTxKeeps ==
  ASSUME IndInv, NEW x \in held, RemovePolyTx(x)
  PROVE  Kept
<1>1. /\ tick = "delete" /\ tick' = "push" /\ held' = {}
      /\ UNCHANGED <<seen, chain, jobs, put, sending, marks, saves, pushes>>
      /\ faults' = faults \/ Fault
  BY DEF RemovePolyTx
<1>2. x \in Copy /\ x.tx \in Tx /\ x.row \in Row
  BY Facts DEF IndInv, TypeOK
<1>3. faults' \in 0..MaxFaults
  BY <1>1, FaultBound DEF IndInv, TypeOK
<1>4. CASE UNCHANGED <<row, removed>>
  <2>1. TypeOK'
    BY <1>1, <1>3, <1>4 DEF IndInv, TypeOK
  <2> QED
    BY <1>1, <1>4, <2>1, SameRemoved, SameRows
<1>5. CASE row' = Deleted(x) /\ removed' = MovedToRemoved(x)
  <2>1. /\ x.row.idx # 0 /\ row[x.tx].idx = x.row.idx
        /\ x.row.status = "TBR" /\ row[x.tx].status = "TBR"
        /\ \A y \in saves : y.tx # x.tx
        /\ \A y \in sending : y.tx = x.tx => y.stage \in {"copied", "saved"}
    BY <1>1 DEF IndInv, Removing
  <2>2. \A u \in Tx : u # x.tx => row[u].idx # x.row.idx
    BY <1>2, <2>1 DEF IndInv, Unique, Saved
  <2>3. row'[x.tx] = NoRow
    BY <1>2, <1>5, <2>1 DEF Deleted
  <2>4. \A u \in Tx : u # x.tx => row'[u] \in {row[u], [row[u] EXCEPT !.base = NoRoot]}
    BY <1>5, <2>2 DEF Deleted
  <2>5. \A u \in Tx : u # x.tx => row'[u] \in Row /\ Reset(u)
    <3>1. SUFFICES ASSUME NEW u \in Tx, u # x.tx
                   PROVE  row'[u] \in Row /\ Reset(u)
      OBVIOUS
    <3>2. row[u] \in Row
      BY Facts
    <3>3. LET r == [row[u] EXCEPT !.base = NoRoot]
          IN  /\ r \in Row /\ r.idx = row[u].idx /\ r.base = NoRoot
              /\ r.retry = row[u].retry /\ r.status = row[u].status
      BY <3>2, NoRowTypes DEF Row
    <3> QED
      BY <2>4, <3>1, <3>2, <3>3 DEF Reset
  <2>6. row' \in [Tx -> Row]
    <3>1. row' = [t \in Tx |-> row'[t]]
      BY <1>5 DEF Deleted
    <3> QED
      BY <2>3, <2>5, <3>1, NoRowTypes
  <2>7. /\ removed' \in [Tx -> Removed]
        /\ IsRemoved(x.tx)'
        /\ \A u \in Tx : u # x.tx => removed'[u] = removed[u]
    <3>1. x.row.retry \in 0..MaxRetry /\ removed \in [Tx -> Removed]
      BY <1>2, RowTypes, Facts
    <3>2. [status |-> "TBR", retry |-> x.row.retry] \in Removed
      BY <3>1 DEF Removed
    <3> QED
      BY <1>2, <1>5, <3>1, <3>2 DEF MovedToRemoved, IsRemoved
  <2>8. TypeOK'
    BY <1>1, <1>3, <2>6, <2>7 DEF IndInv, TypeOK
  <2>9. Left(x.tx)
    BY <1>1, <2>1, <2>3, <2>7, NoRowTypes DEF Left
  <2>10. \A u \in Tx : Moves(u)
    BY <2>5, <2>9 DEF Moves
  <2>11. Saved(x.tx)
    BY <2>1 DEF Saved
  <2>12. \A u \in Tx : u # x.tx => /\ Saved(u)' <=> Saved(u)
                                   /\ IsRemoved(u)' <=> IsRemoved(u)
    BY <2>5, <2>7 DEF Reset, Saved, IsRemoved
  <2>13. \A z \in put' : /\ z.tx \notin seen /\ z.row.idx # 0
                         /\ z.row.status = "N" /\ z.row.retry = 0
    BY <1>1 DEF IndInv, Fresh
  <2> QED
    BY <1>1, <2>7, <2>8, <2>10, <2>11, <2>12, <2>13, MovesKeep
<1> QED
  BY <1>4, <1>5 DEF RemovePolyTx

LEMMA GetFirstToBePushedBackKeeps ==
  ASSUME IndInv, NEW t \in Tx, GetFirstRemovedPolyTxToBePushedBack(t)
  PROVE  Kept
<1>1. /\ tick' = "put" /\ removed[t].status = "TBP"
      /\ UNCHANGED <<row, removed, seen, chain, jobs, put, sending, marks, saves,
                     pushes, faults>>
  BY DEF GetFirstRemovedPolyTxToBePushedBack
<1>2. PICK x \in NextRows(t, removed[t].retry) : held' = {x}
  BY DEF GetFirstRemovedPolyTxToBePushedBack
<1>3. removed[t].retry \in 0..MaxRetry
  BY Facts DEF Removed
<1>4. x \in Copy /\ x.tx = t /\ x.row.idx # 0 /\ x.row.status = "N"
  BY <1>2, <1>3, NextRowTypes
<1>5. TypeOK'
  BY <1>1, <1>2, <1>4 DEF IndInv, TypeOK
<1>6. t \in seen
  BY <1>1 DEF IndInv, Fresh, IsRemoved
<1>7. Fresh' /\ Removing' /\ PuttingBack' /\ OneHeld'
  BY <1>1, <1>2, <1>4, <1>6 DEF IndInv, Fresh, Removing, PuttingBack, OneHeld, Saved,
                               IsRemoved
<1>8. Unique' /\ SavesInPlace' /\ NeverLost' /\ \A u \in Tx : Stays(u)
  BY <1>1 DEF IndInv, Unique, SavesInPlace, NeverLost, Stays, Saved, IsRemoved
<1>9. Sends'
  BY <1>1 DEF IndInv, Sends, Copied, Unchanged, Changed, Computing
<1> QED
  BY <1>5, <1>7, <1>8, <1>9 DEF Kept, IndInv

\* The row is in poly_tx by now.
LEMMA PushBackDeleteKeeps ==
  ASSUME IndInv, NEW x \in held, PushBackDelete(x)
  PROVE  Kept
<1>1. /\ tick = "drop" /\ tick' = "remove" /\ held' = {}
      /\ removed' \in {removed, [removed EXCEPT ![x.tx] = NotRemoved]}
      /\ UNCHANGED <<row, seen, chain, jobs, put, sending, marks, saves, pushes>>
      /\ faults' = faults \/ Fault
  BY DEF PushBackDelete
<1>2. NotRemoved \in Removed
  BY Constants DEF NotRemoved, Removed
<1>3. removed' \in [Tx -> Removed]
  BY <1>1, <1>2, Facts
<1>4. faults' \in 0..MaxFaults
  BY <1>1, FaultBound DEF IndInv, TypeOK
<1>5. TypeOK'
  BY <1>1, <1>3, <1>4 DEF IndInv, TypeOK
<1>6. Saved(x.tx)
  BY <1>1 DEF IndInv, PuttingBack
<1>7. \A t \in Tx : /\ IsRemoved(t)' => IsRemoved(t)
                    /\ t # x.tx => removed'[t] = removed[t]
  BY <1>1, Facts DEF IsRemoved, NotRemoved
<1>8. \A t \in Tx : Moves(t) /\ (Saved(t)' <=> Saved(t))
  BY <1>1 DEF Moves, Reset, Saved
<1>9. \A t \in Tx : Saved(t) \/ IsRemoved(t) => Saved(t)' \/ IsRemoved(t)'
  BY <1>6, <1>7, <1>8 DEF IsRemoved
<1>10. \A z \in put' : /\ z.tx \notin seen /\ z.row.idx # 0
                       /\ z.row.status = "N" /\ z.row.retry = 0
  BY <1>1 DEF IndInv, Fresh
<1> QED
  BY <1>1, <1>5, <1>7, <1>8, <1>9, <1>10, MovesKeep

-----------------------------------------------------------------------------
(***************************************************************************)
(* The operator, restarts, and the theorems.                               *)
(***************************************************************************)
LEMMA RequestRemovalKeeps ==
  ASSUME IndInv, NEW t \in Tx, RequestRemoval(t)
  PROVE  Kept
<1>1. /\ row[t].status \in {"P", "F"}
      /\ row' = [row EXCEPT ![t].status = "TBR"]
      /\ UNCHANGED <<removed, seen, chain, jobs, put, sending, marks, saves, tick,
                     held, pushes, faults>>
  BY DEF RequestRemoval
<1>2. row \in [Tx -> Row] /\ row[t] \in Row
  BY Facts
<1>3. /\ row'[t] = [row[t] EXCEPT !.status = "TBR"]
      /\ \A u \in Tx : u # t => row'[u] = row[u]
  BY <1>1, <1>2
<1>4. /\ row'[t] \in Row /\ row'[t].idx = row[t].idx
      /\ row'[t].base = row[t].base /\ row'[t].status = "TBR"
  BY <1>2, <1>3 DEF Row
<1>5. row' \in [Tx -> Row]
  BY <1>1, <1>2, <1>3, <1>4
<1>6. TypeOK'
  BY <1>1, <1>5 DEF IndInv, TypeOK
<1>7. Moves(t)
  BY <1>1, <1>4 DEF Moves, Requested
<1>8. \A u \in Tx : u # t => Moves(u)
  BY <1>3 DEF Moves, Reset
<1>9. \A u \in Tx : Moves(u)
  BY <1>7, <1>8
<1>10. \A u \in Tx : /\ Saved(u)' <=> Saved(u)
                     /\ IsRemoved(u)' <=> IsRemoved(u)
  BY <1>1, <1>3, <1>4 DEF Saved, IsRemoved
<1>11. \A z \in put' : /\ z.tx \notin seen /\ z.row.idx # 0
                       /\ z.row.status = "N" /\ z.row.retry = 0
  BY <1>1 DEF IndInv, Fresh
<1> QED
  BY <1>1, <1>6, <1>9, <1>10, <1>11, MovesKeep

LEMMA RequestPushBackKeeps ==
  ASSUME IndInv, NEW t \in Tx, RequestPushBack(t)
  PROVE  Kept
<1>1. /\ removed[t].status = "TBR" /\ pushes < MaxPushes /\ pushes' = pushes + 1
      /\ removed' = [removed EXCEPT ![t].status = "TBP"]
      /\ UNCHANGED <<row, seen, chain, jobs, put, sending, marks, saves, tick,
                     held, faults>>
  BY DEF RequestPushBack
<1>2. removed \in [Tx -> Removed]
  BY Facts
<1>3. /\ removed' \in [Tx -> Removed]
      /\ \A u \in Tx : IsRemoved(u)' <=> IsRemoved(u)
  BY <1>1, <1>2 DEF Removed, IsRemoved
<1>4. pushes' \in 0..MaxPushes
  BY <1>1, Constants DEF IndInv, TypeOK
<1>5. TypeOK'
  BY <1>1, <1>3, <1>4 DEF IndInv, TypeOK
<1> QED
  BY <1>1, <1>3, <1>5, SameRows

LEMMA RestartKeeps ==
  ASSUME IndInv, Restart, faults' = faults \/ Fault
  PROVE  Kept
<1>1. /\ put' = {} /\ sending' = {} /\ marks' = {} /\ saves' = {}
      /\ held' = {} /\ tick' = "remove" /\ jobs' \subseteq jobs
      /\ UNCHANGED <<row, removed, seen, chain, pushes>>
  BY DEF Restart
<1>2. faults' \in 0..MaxFaults
  BY FaultBound DEF IndInv, TypeOK
<1>3. TypeOK'
  BY <1>1, <1>2 DEF IndInv, TypeOK
<1> QED
  BY <1>1, <1>3, SameRemoved, SameRows

LEMMA InitIndInv == Init => IndInv
<1> SUFFICES ASSUME Init PROVE IndInv
  OBVIOUS
<1>1. /\ row = [t \in Tx |-> NoRow] /\ removed = [t \in Tx |-> NotRemoved]
      /\ seen = {} /\ chain = {} /\ jobs = {} /\ put = {} /\ sending = {}
      /\ marks = {} /\ saves = {} /\ tick = "remove" /\ held = {}
      /\ pushes = 0 /\ faults = 0
  BY DEF Init
<1>2. NotRemoved \in Removed /\ NotRemoved.status = "none"
  BY Constants DEF NotRemoved, Removed
<1>3. TypeOK
  BY <1>1, <1>2, NoRowTypes, Constants DEF TypeOK
<1>4. Unique /\ Fresh
  BY <1>1, <1>2, NoRowTypes DEF Unique, Fresh, Saved, IsRemoved
<1>5. Sends /\ SavesInPlace /\ Removing /\ PuttingBack /\ OneHeld /\ NeverLost
  BY <1>1 DEF Sends, SavesInPlace, Removing, PuttingBack, OneHeld, NeverLost
<1> QED
  BY <1>3, <1>4, <1>5 DEF IndInv

LEMMA TickKeeps ==
  ASSUME IndInv, TickStep
  PROVE  Kept
BY GetFirstToBeRemovedKeeps, GetFirstToBePushedBackKeeps, RemovePolyTxKeeps,
   PushBackPutKeeps, PushBackDeleteKeeps, NothingKeeps DEF TickStep

LEMMA SendKeeps ==
  ASSUME IndInv, SendStep
  PROVE  Kept
<1>1. ASSUME NEW x \in sending, SendPanics(x)
      PROVE  Kept
  BY <1>1, RestartKeeps DEF SendPanics
<1> QED
  BY <1>1, GetFirstFailedKeeps, SetProcessingKeeps, EndSendKeeps, RootReadKeeps,
     RootSaveKeeps, SendWithRootKeeps, JobRunsKeeps, SettleKeeps DEF SendStep

LEMMA NextKeeps ==
  ASSUME IndInv, Next
  PROVE  Kept
<1>1. CASE TickStep
  BY <1>1, TickKeeps
<1>2. CASE SendStep
  BY <1>2, SendKeeps
<1>3. CASE MarkStep
  BY <1>3, MarkReadKeeps, MarkSaveKeeps DEF MarkStep
<1>4. ASSUME NEW t \in Tx, PutRead(t) \/ RequestRemoval(t) \/ RequestPushBack(t)
      PROVE  Kept
  BY <1>4, PutReadKeeps, RequestRemovalKeeps, RequestPushBackKeeps
<1>5. ASSUME NEW x \in put, PutCreate(x)
      PROVE  Kept
  BY <1>5, PutCreateKeeps
<1>6. CASE Crash
  BY <1>6, RestartKeeps DEF Crash
<1> QED
  BY <1>1, <1>2, <1>3, <1>4, <1>5, <1>6 DEF Next

\* When nothing changes.
LEMMA StutterKeeps ==
  ASSUME IndInv, UNCHANGED vars
  PROVE  Kept
<1>1. /\ UNCHANGED <<row, removed, seen, chain, jobs, put, sending, marks, saves,
                     tick, held, pushes, faults>>
  BY DEF vars
<1>2. TypeOK'
  BY <1>1 DEF IndInv, TypeOK
<1> QED
  BY <1>1, <1>2, SameRemoved, SameRows

\* The invariant holds in every state: a row leaves its place only when it is
\* read as one to be removed and nothing is to be saved over it (RemovePolyTx,
\* mysqldb.go:633-656), and a removed row is dropped only after it is saved
\* again (PushBackRemovePolyTx, 658-681).
THEOREM RemovalInvariance == Spec => []IndInv
<1>1. IndInv /\ [Next]_vars => IndInv'
  BY NextKeeps, StutterKeeps DEF Kept
<1> QED
  BY <1>1, InitIndInv, PTL DEF Spec

\* The type invariant: among others that no transaction is sent more often
\* than PolyTxMaxRetryCount (mysqldb.go:474), removals and push-backs or not.
THEOREM RemovalTypes == Spec => []TypeOK
<1>1. IndInv => TypeOK
  BY DEF IndInv
<1> QED
  BY <1>1, RemovalInvariance, PTL

\* A transaction that MonitorChain has saved is in poly_tx or removed_poly_tx
\* (mysqldb.go:633-681), whatever fails.
THEOREM RemovalNeverLost == Spec => []NeverLost
<1>1. IndInv => NeverLost
  BY DEF IndInv
<1> QED
  BY <1>1, RemovalInvariance, PTL

\* A row leaves its place only when it is moved to removed_poly_tx: the two
\* Saves by an index that was read earlier (mysqldb.go:597, 767) hit no other
\* row.
THEOREM RemovalRowsStay == Spec => RowsStay
<1>1. IndInv /\ [Next]_vars =>
        [\A t \in Tx : Saved(t) =>
           \/ row'[t].idx = row[t].idx
           \/ /\ ~Saved(t)' /\ IsRemoved(t)'
              /\ \E x \in held : x.tx = t /\ x.row.status = "TBR"]_vars
  BY NextKeeps DEF Kept, Stays
<1> QED
  BY <1>1, RemovalInvariance, PTL DEF Spec, RowsStay
=============================================================================
