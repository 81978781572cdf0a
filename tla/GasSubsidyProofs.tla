-------------------------- MODULE GasSubsidyProofs --------------------------
(***************************************************************************)
(* No transaction is subsidised twice by what the relayer does, no row is  *)
(* done without its payment and no receiver is paid more than Cap times:   *)
(* for any transfers, retries, failed calls and crashes.                   *)
(***************************************************************************)
EXTENDS GasSubsidy, TLAPS, FiniteSetTheorems

\* The hash of a row is that of its last attempt.
LastHash ==
  \A t \in Transfer : /\ row[t].hash = row[t].retry
                      /\ row[t].status = "none" => row[t].hash = 0 /\ ~row[t].pays

\* What is being sent is the last attempt of its row.
InFlight ==
  \A f \in flight :
    /\ row[f.tx].status = "P" /\ row[f.tx].hash = f.n
    /\ f.stage = "signed" => \A a \in sent : ~(a.tx = f.tx /\ a.n = f.n)

\* Each attempt is submitted once, and none that its row does not know of.
Numbered ==
  /\ \A a \in sent : a.n <= row[a.tx].hash
  /\ \A a, b \in sent : a.tx = b.tx /\ a.n = b.n => a = b

\* An attempt executed in time is the last one, and its row waits for it or
\* is done: no query has it sent again.
OnTime ==
  \A a \in sent : a.fate = "executed" =>
    row[a.tx].hash = a.n /\ row[a.tx].status \in {"P", "T", "D"}

\* DoneIsPaid, by the attempt the row names.
DoneByHash ==
  \A t \in Transfer :
    row[t].status = "D" /\ row[t].pays => Executed(t, row[t].hash)

IndInv == TypeOK /\ LastHash /\ InFlight /\ Numbered /\ OnTime /\ DoneByHash

-----------------------------------------------------------------------------
\* The number of faults stays in its bounds.
LEMMA FaultBound ==
  ASSUME faults \in 0..MaxFaults, faults' = faults \/ Fault
  PROVE  faults' \in 0..MaxFaults
BY ConstantsAssumption DEF Fault, ConstantsAssumption

\* The attempt after the last one.
LEMMA NextAttempt ==
  ASSUME NEW r \in 0..MaxRetry, r < MaxRetry
  PROVE  r + 1 \in 1..MaxRetry /\ r + 1 \in 0..MaxRetry /\ ~(r + 1 <= r)
BY ConstantsAssumption DEF ConstantsAssumption

LEMMA Phases ==
  AfterSending \in {"create", "notSent", "timedOut", "failed"}
BY DEF AfterSending

\* A step that ends what is being sent and writes nothing.
LEMMA NoWrite ==
  ASSUME IndInv, row' = row, sent' = sent, next' = next, flight' = {},
         due' \in SUBSET Transfer, faults' = faults \/ Fault,
         phase' \in {"create", "notSent", "timedOut", "failed"}
  PROVE  IndInv'
<1>1. faults' \in 0..MaxFaults
  BY FaultBound DEF IndInv, TypeOK
<1>2. TypeOK'
  BY <1>1 DEF IndInv, TypeOK
<1>3. LastHash' /\ InFlight' /\ Numbered' /\ OnTime' /\ DoneByHash'
  BY DEF IndInv, LastHash, InFlight, Numbered, OnTime, DoneByHash, Executed
<1> QED
  BY <1>2, <1>3 DEF IndInv

\* A write of the status that ends what is being sent.
LEMMA StatusWrite ==
  ASSUME IndInv,
         NEW t \in Transfer, NEW old \in Status \ {"none"},
         NEW s \in {"D", "F", "T", "UE"},
         SetGasSubsidyStatus(t, old, s),
         s = "D" /\ row[t].pays => Executed(t, row[t].hash),
         s \in {"F", "UE"} => \A a \in sent : a.tx = t => a.fate # "executed",
         sent' = sent, next' = next, flight' = {}, due' = due,
         faults' = faults \/ Fault,
         phase' \in {"create", "notSent", "timedOut", "failed"}
  PROVE  IndInv'
<1>1. CASE row' = row
  BY <1>1, NoWrite DEF IndInv, TypeOK
<1>2. CASE row' # row
  <2>1. /\ row[t].status = old
        /\ row' = [row EXCEPT ![t].status = s, ![t].stale = FALSE]
    BY <1>2 DEF SetGasSubsidyStatus
  <2>2. row \in [Transfer -> Row]
    BY DEF IndInv, TypeOK
  <2>3. /\ row'[t] = [row[t] EXCEPT !.status = s, !.stale = FALSE]
        /\ \A u \in Transfer : u # t => row'[u] = row[u]
    BY <2>1, <2>2 DEF Row
  <2>4. /\ row'[t].status = s /\ row'[t].hash = row[t].hash
        /\ row'[t].retry = row[t].retry /\ row'[t].pays = row[t].pays
    BY <2>2, <2>3 DEF Row
  <2>5. row' \in [Transfer -> Row]
    <3>1. row[t] \in Row /\ s \in Status
      BY <2>2 DEF Status
    <3>2. row'[t] \in Row
      BY <2>3, <3>1 DEF Row
    <3> QED
      BY <2>1, <2>2, <2>3, <3>2
  <2>6. faults' \in 0..MaxFaults
    BY FaultBound DEF IndInv, TypeOK
  <2>7. TypeOK'
    BY <2>5, <2>6 DEF IndInv, TypeOK
  <2>8. LastHash'
    <3>1. LastHash
      BY DEF IndInv
    <3>2. row'[t].status # "none" /\ row'[t].hash = row'[t].retry
      BY <2>4, <3>1 DEF LastHash
    <3> QED
      BY <2>3, <3>1, <3>2 DEF LastHash
  <2>9. InFlight'
    BY DEF InFlight
  <2>10. \A u \in Transfer : row'[u].hash = row[u].hash
    BY <2>3, <2>4
  <2>11. \A a \in sent : a.tx \in Transfer
    BY DEF IndInv, TypeOK, Attempt
  <2>12. Numbered'
    BY <2>10, <2>11 DEF IndInv, Numbered
  <2>13. OnTime'
    <3> SUFFICES ASSUME NEW a \in sent, a.fate = "executed"
                 PROVE  row'[a.tx].hash = a.n /\ row'[a.tx].status \in {"P", "T", "D"}
      BY DEF OnTime
    <3>1. row[a.tx].hash = a.n /\ row[a.tx].status \in {"P", "T", "D"}
      BY DEF IndInv, OnTime
    <3>2. a.tx = t => s \in {"D", "T"}
      OBVIOUS
    <3> QED
      BY <2>3, <2>4, <2>11, <3>1, <3>2
  <2>14. DoneByHash'
    <3>1. \A u \in Transfer : \A n : Executed(u, n)' <=> Executed(u, n)
      BY DEF Executed
    <3> SUFFICES ASSUME NEW u \in Transfer, row'[u].status = "D", row'[u].pays
                 PROVE  Executed(u, row'[u].hash)
      BY <3>1 DEF DoneByHash
    <3>2. CASE u = t
      BY <2>4, <3>2
    <3>3. CASE u # t
      BY <2>3, <3>3 DEF IndInv, DoneByHash
    <3> QED
      BY <3>2, <3>3
  <2> QED
    BY <2>7, <2>8, <2>9, <2>12, <2>13, <2>14 DEF IndInv
<1> QED
  BY <1>1, <1>2

\* A row whose transfer was not executed in time is sent once more.
LEMMA SendStep ==
  ASSUME IndInv, NEW t \in Transfer, Send(t),
         row[t].status \notin {"none", "D", "T"}, row[t].retry < MaxRetry,
         ~(row[t].status = "P" /\ row[t].hash # 0),
         sent' = sent, next' = next, due' = due,
         phase \in {"notSent", "failed"}
  PROVE  IndInv'
<1>1. row[t] \in Row
  BY DEF IndInv, TypeOK
<1>2. CASE ~row[t].pays /\ SetGasSubsidyStatus(t, row[t].status, "D")
           /\ Becomes(AfterSending) /\ UNCHANGED faults
  <2>1. row[t].status \in Status \ {"none"}
    BY <1>1 DEF Row
  <2> QED
    BY <1>2, <2>1, Phases, StatusWrite DEF Becomes
<1>3. CASE Fault /\ Becomes(AfterSending) /\ UNCHANGED row
  BY <1>3, NoWrite, Phases DEF Becomes, IndInv, TypeOK
<1>4. ASSUME row[t].pays,
             row' = [row EXCEPT ![t] =
                       [row[t] EXCEPT !.status = "P", !.hash = row[t].retry + 1,
                                      !.retry = row[t].retry + 1, !.stale = FALSE]],
             flight' = {[tx |-> t, n |-> row[t].retry + 1, seq |-> next,
                         stage |-> "signed"]},
             UNCHANGED <<phase, faults>>
      PROVE  IndInv'
  <2> DEFINE n == row[t].retry + 1
  <2>1. /\ row[t].retry \in 0..MaxRetry
        /\ row[t].hash = row[t].retry
    BY <1>1 DEF Row, IndInv, LastHash
  <2>2. n \in 1..MaxRetry /\ n \in 0..MaxRetry /\ ~(n <= row[t].retry)
    BY <2>1, NextAttempt
  <2> HIDE DEF n
  <2>3. row \in [Transfer -> Row]
    BY DEF IndInv, TypeOK
  <2>4. row' = [row EXCEPT ![t] = [row[t] EXCEPT !.status = "P", !.hash = n,
                                                 !.retry = n, !.stale = FALSE]]
    BY <1>4 DEF n
  <2>5. /\ row'[t] = [row[t] EXCEPT !.status = "P", !.hash = n, !.retry = n,
                                    !.stale = FALSE]
        /\ \A u \in Transfer : u # t => row'[u] = row[u]
    BY <2>3, <2>4
  <2>6. /\ row'[t] \in Row
        /\ row'[t].status = "P" /\ row'[t].hash = n /\ row'[t].retry = n
        /\ row'[t].pays = row[t].pays
    BY <1>1, <2>2, <2>5 DEF Row, Status
  <2>7. row' \in [Transfer -> Row]
    BY <2>3, <2>4, <2>5, <2>6
  <2>8. flight' = {[tx |-> t, n |-> n, seq |-> next, stage |-> "signed"]}
    BY <1>4 DEF n
  <2>9. TypeOK'
    <3>1. flight' \in SUBSET Flight
      BY <2>2, <2>8 DEF IndInv, TypeOK, Flight
    <3> QED
      BY <1>4, <2>7, <3>1 DEF IndInv, TypeOK
  <2>10. LastHash'
    BY <2>5, <2>6 DEF IndInv, LastHash
  <2>11. \A a \in sent : a.tx \in Transfer /\ a.n \in 1..MaxRetry
    BY DEF IndInv, TypeOK, Attempt
  <2>12. \A a \in sent : a.tx = t => a.n <= row[t].retry
    BY <2>1, <2>11 DEF IndInv, Numbered
  <2>13. \A a \in sent : a.tx = t => a.n # n
    BY <2>2, <2>12
  <2>14. InFlight'
    BY <2>6, <2>8, <2>13 DEF InFlight
  <2>15. \A a \in sent : a.tx = t => a.n <= n
    BY <2>1, <2>11, <2>12 DEF n
  <2>16. Numbered'
    BY <2>5, <2>6, <2>11, <2>15 DEF IndInv, Numbered
  <2>17. \A a \in sent : a.tx = t => a.fate # "executed"
    <3> SUFFICES ASSUME NEW a \in sent, a.tx = t, a.fate = "executed"
                 PROVE  FALSE
      OBVIOUS
    <3>1. row[t].hash = a.n /\ row[t].status = "P"
      BY DEF IndInv, OnTime
    <3>2. a.n # 0
      BY <2>11
    <3> QED
      BY <3>1, <3>2
  <2>18. OnTime'
    BY <2>5, <2>11, <2>17 DEF IndInv, OnTime
  <2>19. DoneByHash'
    <3>1. \A u \in Transfer : \A k : Executed(u, k)' <=> Executed(u, k)
      BY DEF Executed
    <3>2. \A u \in Transfer : row'[u].status = "D" => u # t /\ row'[u] = row[u]
      BY <2>5, <2>6
    <3> QED
      BY <3>1, <3>2 DEF IndInv, DoneByHash
  <2> QED
    BY <2>9, <2>10, <2>14, <2>16, <2>18, <2>19 DEF IndInv
<1> QED
  BY <1>2, <1>3, <1>4 DEF Send

\* A row is settled by what Starcoin says of its last attempt.
LEMMA HandleTimedOutStep ==
  ASSUME IndInv, NEW t \in Transfer, HandleTimedOut(t),
         row[t].status # "none",
         sent' = sent, next' = next, flight' = {}, due' = due, faults' = faults,
         phase' \in {"create", "notSent", "timedOut", "failed"}
  PROVE  IndInv'
<1>1. row[t].status \in Status \ {"none"}
  BY DEF IndInv, TypeOK, Row
<1>2. \A a \in sent : a.tx = t /\ a.fate = "executed" =>
        a.n = row[t].hash /\ row[t].hash # 0 /\ Executed(t, row[t].hash)
  BY DEF IndInv, TypeOK, Attempt, OnTime, Executed
<1>3. CASE row[t].hash = 0 /\ SetGasSubsidyStatus(t, row[t].status, "UE")
  BY <1>1, <1>2, <1>3, StatusWrite
<1>4. CASE Executed(t, row[t].hash) /\ SetGasSubsidyStatus(t, row[t].status, "D")
  BY <1>1, <1>4, StatusWrite
<1>5. CASE ~Executed(t, row[t].hash) /\ SetGasSubsidyStatus(t, row[t].status, "F")
  BY <1>1, <1>2, <1>5, StatusWrite
<1> QED
  BY <1>3, <1>4, <1>5 DEF HandleTimedOut

-----------------------------------------------------------------------------
(***************************************************************************)
(* The steps of MonitorGasSubsidy.                                         *)
(***************************************************************************)
LEMMA CreatedRow ==
  ASSUME NEW p \in BOOLEAN
  PROVE  /\ NewRow(p) \in Row /\ NewRow(p).status = "N"
         /\ NewRow(p).hash = 0 /\ NewRow(p).retry = 0
<1>1. 0 \in 0..MaxRetry
  BY ConstantsAssumption DEF ConstantsAssumption
<1>2. NewRow(p) \in Row
  BY <1>1, Zenon DEF NewRow, Row, Status
<1> QED
  BY <1>2 DEF NewRow

LEMMA CreateStep ==
  ASSUME IndInv, NEW t \in Transfer, Create(t)
  PROVE  IndInv'
<1> DEFINE new == NewRow(t \in Subsidised /\ ~TooMuch(t))
<1>1. /\ row[t].status = "none" /\ row' = [row EXCEPT ![t] = new]
      /\ UNCHANGED <<due, next, sent, phase, flight, faults>>
  BY DEF Create
<1>2. (t \in Subsidised /\ ~TooMuch(t)) \in BOOLEAN
  BY Zenon
<1>3. /\ new \in Row /\ new.status = "N" /\ new.hash = 0 /\ new.retry = 0
  BY <1>2, CreatedRow
<1> HIDE DEF new
<1>4. row \in [Transfer -> Row]
  BY DEF IndInv, TypeOK
<1>5. row'[t] = new /\ \A u \in Transfer : u # t => row'[u] = row[u]
  BY <1>1, <1>4
<1>6. row' \in [Transfer -> Row]
  BY <1>1, <1>3, <1>4
<1>7. TypeOK'
  BY <1>1, <1>6 DEF IndInv, TypeOK
<1>8. row[t].hash = 0
  BY <1>1 DEF IndInv, LastHash
<1>9. LastHash'
  BY <1>3, <1>5 DEF IndInv, LastHash
<1>10. \A u \in Transfer : row'[u].hash = row[u].hash
  BY <1>3, <1>5, <1>8
<1>11. \A f \in flight : f.tx \in Transfer /\ f.tx # t
  BY <1>1 DEF IndInv, TypeOK, Flight, InFlight
<1>12. InFlight'
  BY <1>1, <1>5, <1>11 DEF IndInv, InFlight
<1>13. \A a \in sent : a.tx \in Transfer
  BY DEF IndInv, TypeOK, Attempt
<1>14. Numbered'
  BY <1>1, <1>10, <1>13 DEF IndInv, Numbered
<1>15. \A a \in sent : a.fate = "executed" => a.tx # t
  BY <1>1 DEF IndInv, OnTime
<1>16. OnTime'
  BY <1>1, <1>5, <1>13, <1>15 DEF IndInv, OnTime
<1>17. DoneByHash'
  BY <1>1, <1>3, <1>5 DEF IndInv, DoneByHash, Executed
<1> QED
  BY <1>7, <1>9, <1>12, <1>14, <1>16, <1>17 DEF IndInv

\* What was in flight is in the node's pool.
LEMMA SubmitStep ==
  ASSUME IndInv, NEW f \in flight, f.stage = "signed",
         sent' = sent \cup {AttemptOf(f)},
         flight' \in {{}, {[f EXCEPT !.stage = "submitted"]}},
         row' = row, next' = next, due' = due,
         faults' = faults \/ Fault,
         phase' \in {"create", "notSent", "timedOut", "failed"}
  PROVE  IndInv'
<1>1. f \in Flight
  BY DEF IndInv, TypeOK
<1> DEFINE new == AttemptOf(f)
<1>2. /\ new \in Attempt /\ new.tx = f.tx /\ new.n = f.n
      /\ new.fate = "pending"
  BY <1>1 DEF AttemptOf, Attempt, Flight
<1> HIDE DEF new
<1>3. sent' = sent \cup {new}
  BY DEF new
<1>4. /\ [f EXCEPT !.stage = "submitted"] \in Flight
      /\ [f EXCEPT !.stage = "submitted"].tx = f.tx
      /\ [f EXCEPT !.stage = "submitted"].n = f.n
      /\ [f EXCEPT !.stage = "submitted"].stage = "submitted"
  BY <1>1 DEF Flight
<1>5. faults' \in 0..MaxFaults
  BY FaultBound DEF IndInv, TypeOK
<1>6. TypeOK'
  BY <1>2, <1>3, <1>4, <1>5 DEF IndInv, TypeOK
<1>7. LastHash'
  BY DEF IndInv, LastHash
<1>8. /\ row[f.tx].status = "P" /\ row[f.tx].hash = f.n
      /\ \A a \in sent : ~(a.tx = f.tx /\ a.n = f.n)
  BY DEF IndInv, InFlight
<1>9. InFlight'
  BY <1>4, <1>8 DEF InFlight
<1>10. f.n <= row[f.tx].hash
  BY <1>1, <1>8 DEF Flight
<1>11. Numbered'
  BY <1>2, <1>3, <1>8, <1>10 DEF IndInv, Numbered
<1>12. OnTime'
  BY <1>2, <1>3 DEF IndInv, OnTime
<1>13. DoneByHash'
  BY <1>3 DEF IndInv, DoneByHash, Executed
<1> QED
  BY <1>6, <1>7, <1>9, <1>11, <1>12, <1>13 DEF IndInv

LEMMA WaitStep ==
  ASSUME IndInv, NEW f \in flight, WaitTransactionConfirm(f)
  PROVE  IndInv'
<1>1. /\ f.tx \in Transfer /\ row[f.tx].hash = f.n /\ row[f.tx].status = "P"
  BY DEF IndInv, TypeOK, Flight, InFlight
<1>2. /\ flight' = {} /\ sent' = sent /\ next' = next /\ due' = due
      /\ phase' \in {"create", "notSent", "timedOut", "failed"}
  BY Phases DEF WaitTransactionConfirm, Becomes
<1>3. CASE Executed(f.tx, f.n) /\ SetGasSubsidyStatus(f.tx, "P", "D")
           /\ UNCHANGED faults
  BY <1>1, <1>2, <1>3, StatusWrite DEF Status
<1>4. CASE Aborted(f.tx, f.n) /\ SetGasSubsidyStatus(f.tx, "P", "F")
           /\ UNCHANGED faults
  <2>1. \A a \in sent : a.tx = f.tx => a.fate # "executed"
    BY <1>1, <1>4 DEF Aborted, IndInv, Numbered, OnTime
  <2> QED
    BY <1>1, <1>2, <1>4, <2>1, StatusWrite DEF Status
<1>5. CASE SetGasSubsidyStatus(f.tx, "P", "T") /\ UNCHANGED faults
  BY <1>1, <1>2, <1>5, StatusWrite DEF Status
<1>6. CASE Fault /\ UNCHANGED row
  BY <1>2, <1>6, NoWrite DEF IndInv, TypeOK
<1> QED
  BY <1>3, <1>4, <1>5, <1>6 DEF WaitTransactionConfirm

LEMMA MonitorInv ==
  ASSUME IndInv, MonitorStep
  PROVE  IndInv'
<1> DEFINE Idle == /\ row' = row /\ sent' = sent /\ next' = next
                   /\ flight' = {} /\ due' = due
                   /\ faults' = faults \/ Fault
                   /\ phase' \in {"create", "notSent", "timedOut", "failed"}
<1>1. ASSUME Idle PROVE IndInv'
  BY <1>1, NoWrite DEF IndInv, TypeOK
<1>2. ASSUME NEW t \in Transfer, HandleNotSentGasSubsidy(t)
      PROVE  IndInv'
  <2>1. /\ row[t].status \notin {"none", "D", "T"} /\ row[t].hash = 0
        /\ Send(t) /\ phase = "notSent" /\ UNCHANGED <<due, next, sent>>
    BY <1>2 DEF HandleNotSentGasSubsidy, NotSent
  <2>2. row[t].retry < MaxRetry
    BY <2>1, ConstantsAssumption DEF IndInv, LastHash, ConstantsAssumption
  <2> QED
    BY <2>1, <2>2, SendStep
<1>3. ASSUME NEW t \in Transfer, HandleTimedOutGasSubsidy(t)
      PROVE  IndInv'
  <2>1. /\ row[t].status # "none" /\ UNCHANGED <<due, next, sent>>
        /\ phase' = "failed" /\ flight' = {}
        /\ \/ HandleTimedOut(t) /\ UNCHANGED faults
           \/ Fault /\ UNCHANGED row
    BY <1>3 DEF HandleTimedOutGasSubsidy, TimedOut, Becomes
  <2>2. CASE HandleTimedOut(t) /\ UNCHANGED faults
    BY <2>1, <2>2, HandleTimedOutStep
  <2> QED
    BY <1>1, <2>1, <2>2
<1>4. ASSUME NEW t \in Transfer, HandleFailedGasSubsidy(t)
      PROVE  IndInv'
  <2>1. /\ row[t].status \notin {"none", "D", "T"} /\ row[t].retry < MaxRetry
        /\ phase = "failed" /\ UNCHANGED <<due, next, sent>>
    BY <1>4 DEF HandleFailedGasSubsidy, Failed
  <2>2. CASE HandleTimedOut(t) /\ UNCHANGED faults /\ Becomes("create")
    BY <2>1, <2>2, HandleTimedOutStep DEF Becomes
  <2>3. CASE Fault /\ UNCHANGED row /\ Becomes("create")
    BY <1>1, <2>1, <2>3 DEF Becomes
  <2>4. CASE ~(row[t].status = "P" /\ row[t].hash # 0) /\ Send(t)
    BY <2>1, <2>4, SendStep
  <2> QED
    BY <1>4, <2>2, <2>3, <2>4 DEF HandleFailedGasSubsidy
<1>5. ASSUME NEW f \in flight, SubmitSignedTransaction(f)
      PROVE  IndInv'
  BY <1>5, SubmitStep DEF SubmitSignedTransaction, IndInv, TypeOK
<1>6. ASSUME NEW f \in flight, SubmitFails(f)
      PROVE  IndInv'
  <2>1. /\ f.stage = "signed" /\ flight' = {} /\ row' = row /\ next' = next
        /\ due' = due
        /\ faults' = faults \/ Fault
        /\ sent' = sent \/ sent' = sent \cup {AttemptOf(f)}
        /\ phase' \in {"create", "notSent", "timedOut", "failed"}
    BY <1>6, Phases DEF SubmitFails, Becomes
  <2>2. CASE sent' = sent
    BY <1>1, <2>1, <2>2
  <2>3. CASE sent' = sent \cup {AttemptOf(f)}
    BY <2>1, <2>3, SubmitStep
  <2> QED
    BY <2>1, <2>2, <2>3
<1>7. CASE EndCreate \/ NoNotSentGasSubsidy \/ NoTimedOutGasSubsidy
           \/ NoFailedGasSubsidy
  <2>1. Idle
    BY <1>7 DEF EndCreate, NoNotSentGasSubsidy, NoTimedOutGasSubsidy,
                NoFailedGasSubsidy, Becomes
  <2> QED
    BY <1>1, <2>1
<1> HIDE DEF Idle
<1> QED
  BY <1>2, <1>3, <1>4, <1>5, <1>6, <1>7, CreateStep, WaitStep DEF MonitorStep

-----------------------------------------------------------------------------
(***************************************************************************)
(* The chain and the clock.                                                *)
(***************************************************************************)
LEMMA ChainInv ==
  ASSUME IndInv, NEW a \in sent, ChainRuns(a)
  PROVE  IndInv'
<1>1. PICK fate \in {IF GivenUp(a) THEN "late" ELSE "executed", "aborted"} :
        sent' = (sent \ {a}) \cup {[a EXCEPT !.fate = fate]}
  BY DEF ChainRuns
<1>2. /\ a.fate = "pending" /\ next' = next + 1
      /\ UNCHANGED <<due, row, phase, flight, faults>>
  BY DEF ChainRuns
<1>3. a \in Attempt
  BY DEF IndInv, TypeOK
<1> DEFINE new == [a EXCEPT !.fate = fate]
<1>4. /\ new \in Attempt /\ new.tx = a.tx /\ new.n = a.n /\ new.fate = fate
  BY <1>3 DEF Attempt
<1> HIDE DEF new
<1>5. sent' = (sent \ {a}) \cup {new}
  BY <1>1 DEF new
<1>6. TypeOK'
  BY <1>2, <1>4, <1>5 DEF IndInv, TypeOK
<1>7. LastHash'
  BY <1>2 DEF IndInv, LastHash
<1>8. InFlight'
  BY <1>2, <1>4, <1>5 DEF IndInv, InFlight
<1>9. Numbered'
  BY <1>2, <1>4, <1>5 DEF IndInv, Numbered
<1>10. fate = "executed" => row[a.tx].hash = a.n /\ row[a.tx].status \in {"P", "T"}
  BY DEF GivenUp
<1>11. OnTime'
  BY <1>2, <1>4, <1>5, <1>10 DEF IndInv, OnTime
<1>12. \A t \in Transfer : \A n : Executed(t, n) => Executed(t, n)'
  BY <1>2, <1>5 DEF Executed
<1>13. DoneByHash'
  BY <1>2, <1>12 DEF IndInv, DoneByHash
<1> QED
  BY <1>6, <1>7, <1>8, <1>9, <1>11, <1>13 DEF IndInv

LEMMA TimeInv ==
  ASSUME IndInv, NEW t \in Transfer, TimePasses(t)
  PROVE  IndInv'
<1>1. row \in [Transfer -> Row]
  BY DEF IndInv, TypeOK
<1>2. /\ row' = [row EXCEPT ![t].stale = TRUE]
      /\ UNCHANGED <<due, next, sent, phase, flight, faults>>
  BY DEF TimePasses
<1>3. \A u \in Transfer : /\ row'[u].status = row[u].status
                         /\ row'[u].hash = row[u].hash
                         /\ row'[u].retry = row[u].retry
                         /\ row'[u].pays = row[u].pays
                         /\ row'[u] \in Row
  BY <1>1, <1>2 DEF Row
<1>4. row' \in [Transfer -> Row]
  BY <1>1, <1>2, <1>3
<1>5. TypeOK'
  BY <1>2, <1>4 DEF IndInv, TypeOK
<1>6. \A a \in sent : a.tx \in Transfer
  BY DEF IndInv, TypeOK, Attempt
<1>7. \A f \in flight : f.tx \in Transfer
  BY DEF IndInv, TypeOK, Flight
<1>8. LastHash' /\ InFlight'
  BY <1>2, <1>3, <1>7 DEF IndInv, LastHash, InFlight
<1>9. Numbered' /\ OnTime'
  BY <1>2, <1>3, <1>6 DEF IndInv, Numbered, OnTime
<1>10. DoneByHash'
  BY <1>2, <1>3 DEF IndInv, DoneByHash, Executed
<1> QED
  BY <1>5, <1>8, <1>9, <1>10 DEF IndInv

LEMMA Step == IndInv /\ [Next]_vars => IndInv'
<1> SUFFICES ASSUME IndInv, [Next]_vars PROVE IndInv'
  OBVIOUS
<1>1. CASE MonitorStep
  BY <1>1, MonitorInv
<1>2. ASSUME NEW t \in Transfer, PolyTxProcessed(t)
      PROVE  IndInv'
  BY <1>2 DEF PolyTxProcessed, IndInv, TypeOK, LastHash, InFlight, Numbered,
              OnTime, DoneByHash, Executed
<1>3. ASSUME NEW t \in Transfer, TimePasses(t)
      PROVE  IndInv'
  BY <1>3, TimeInv
<1>4. ASSUME NEW a \in sent, ChainRuns(a)
      PROVE  IndInv'
  BY <1>4, ChainInv
<1>5. CASE Crash
  BY <1>5, NoWrite DEF Crash, Becomes, IndInv, TypeOK
<1>6. CASE UNCHANGED vars
  BY <1>6 DEF vars, IndInv, TypeOK, LastHash, InFlight, Numbered, OnTime,
              DoneByHash, Executed
<1> QED
  BY <1>1, <1>2, <1>3, <1>4, <1>5, <1>6 DEF Next

LEMMA InitInv == Init => IndInv
<1> SUFFICES ASSUME Init PROVE IndInv
  OBVIOUS
<1>1. NoRow \in Row
  BY ConstantsAssumption DEF NoRow, Row, Status, ConstantsAssumption
<1>2. faults \in 0..MaxFaults
  BY ConstantsAssumption DEF Init, ConstantsAssumption
<1>3. TypeOK
  BY <1>1, <1>2 DEF Init, TypeOK
<1>4. LastHash /\ InFlight /\ Numbered /\ OnTime /\ DoneByHash
  BY DEF Init, NoRow, LastHash, InFlight, Numbered, OnTime, DoneByHash
<1> QED
  BY <1>3, <1>4 DEF IndInv

\* The inductive invariant, which the three theorems below share.
LEMMA Invariant == Spec => []IndInv
BY InitInv, Step, PTL DEF Spec

(***************************************************************************)
(* The variables of the subsidy goroutine keep their types: in particular  *)
(* no attempt is made past GasSubsidyTxMaxRetryCount.                      *)
(***************************************************************************)
THEOREM SubsidyTypes == Spec => []TypeOK
<1>1. IndInv => TypeOK
  BY DEF IndInv
<1> QED
  BY <1>1, Invariant, PTL

(***************************************************************************)
(* A transaction is subsidised twice only by a transfer that ran after the *)
(* relayer had given it up: an attempt that runs in time is the last one.  *)
(***************************************************************************)
THEOREM SubsidyOnce == Spec => []PaidOnce
<1>1. IndInv => PaidOnce
  <2> SUFFICES ASSUME IndInv, NEW a \in sent, NEW b \in sent,
                      a.tx = b.tx, a # b, Paid(a), Paid(b),
                      "late" \notin {a.fate, b.fate}
               PROVE  FALSE
    BY DEF PaidOnce
  <2>1. a.fate = "executed" /\ b.fate = "executed"
    BY DEF Paid
  <2>2. a.n = b.n
    BY <2>1 DEF IndInv, OnTime
  <2> QED
    BY <2>2 DEF IndInv, Numbered
<1> QED
  BY <1>1, Invariant, PTL

(***************************************************************************)
(* A row that is done and has an amount names an attempt that ran.         *)
(***************************************************************************)
THEOREM SubsidyDone == Spec => []DoneIsPaid
<1>1. IndInv => DoneIsPaid
  BY DEF IndInv, DoneByHash, DoneIsPaid, Executed, Paid
<1> QED
  BY <1>1, Invariant, PTL

-----------------------------------------------------------------------------
(***************************************************************************)
(* The cap.  Only a new row can have an amount, and it has one only when   *)
(* its receiver has fewer than Cap rows, with or without an amount.        *)
(***************************************************************************)
LEMMA StatusPays ==
  ASSUME TypeOK, NEW t \in Transfer, NEW old, NEW s,
         SetGasSubsidyStatus(t, old, s)
  PROVE  \A u \in Transfer : row'[u].pays = row[u].pays
BY DEF TypeOK, Row, SetGasSubsidyStatus

LEMMA SamePays ==
  ASSUME TypeOK, [Next]_vars, ~(\E t \in Transfer : Create(t))
  PROVE  \A u \in Transfer : row'[u].pays = row[u].pays
<1>1. row \in [Transfer -> Row]
  BY DEF TypeOK
<1>2. ASSUME NEW t \in Transfer, HandleTimedOut(t)
      PROVE  \A u \in Transfer : row'[u].pays = row[u].pays
  BY <1>2, StatusPays DEF HandleTimedOut
<1>3. ASSUME NEW t \in Transfer, Send(t)
      PROVE  \A u \in Transfer : row'[u].pays = row[u].pays
  <2>1. CASE SetGasSubsidyStatus(t, row[t].status, "D")
    BY <2>1, StatusPays
  <2>2. CASE row' = row
    BY <2>2
  <2>3. CASE row' = [row EXCEPT ![t] =
                       [row[t] EXCEPT !.status = "P", !.hash = row[t].retry + 1,
                                      !.retry = row[t].retry + 1, !.stale = FALSE]]
    BY <1>1, <2>3 DEF Row
  <2> QED
    BY <1>3, <2>1, <2>2, <2>3 DEF Send
<1>4. ASSUME NEW t \in Transfer,
             \/ HandleNotSentGasSubsidy(t)
             \/ HandleTimedOutGasSubsidy(t)
             \/ HandleFailedGasSubsidy(t)
      PROVE  \A u \in Transfer : row'[u].pays = row[u].pays
  BY <1>2, <1>3, <1>4 DEF HandleNotSentGasSubsidy, HandleTimedOutGasSubsidy,
                          HandleFailedGasSubsidy
<1>5. ASSUME NEW f \in flight, WaitTransactionConfirm(f)
      PROVE  \A u \in Transfer : row'[u].pays = row[u].pays
  <2>1. f.tx \in Transfer
    BY DEF TypeOK, Flight
  <2> QED
    BY <1>5, <2>1, StatusPays DEF WaitTransactionConfirm
<1>6. ASSUME NEW t \in Transfer, TimePasses(t)
      PROVE  \A u \in Transfer : row'[u].pays = row[u].pays
  BY <1>1, <1>6 DEF TimePasses, Row
<1>7. CASE row' = row
  BY <1>7
<1>8. CASE MonitorStep
  BY <1>4, <1>5, <1>7, <1>8 DEF MonitorStep, EndCreate, NoNotSentGasSubsidy,
     NoTimedOutGasSubsidy, NoFailedGasSubsidy, SubmitSignedTransaction, SubmitFails
<1> QED
  BY <1>6, <1>7, <1>8 DEF Next, vars, PolyTxProcessed, ChainRuns, Crash

LEMMA CreateCapped ==
  ASSUME IndInv, Capped, NEW t \in Transfer, Create(t)
  PROVE  Capped'
<1> DEFINE p == t \in Subsidised /\ ~TooMuch(t)
<1>1. /\ row[t].status = "none" /\ row' = [row EXCEPT ![t] = NewRow(p)]
      /\ ~row[t].pays /\ row \in [Transfer -> Row]
  BY DEF Create, IndInv, TypeOK, LastHash
<1>2. /\ row'[t].pays = p
      /\ \A u \in Transfer : u # t => row'[u].pays = row[u].pays
  BY <1>1 DEF NewRow
<1>3. p => ~TooMuch(t)
  OBVIOUS
<1> HIDE DEF p
<1> SUFFICES ASSUME NEW v \in Transfer
             PROVE  Cardinality({u \in Transfer : row'[u].pays /\ Payee[u] = Payee[v]}) <= Cap
  BY DEF Capped
<1> DEFINE S == {u \in Transfer : row[u].pays /\ Payee[u] = Payee[v]}
           T == {u \in Transfer : row'[u].pays /\ Payee[u] = Payee[v]}
           C == {u \in Transfer : row[u].status # "none" /\ Payee[u] = Payee[t]}
<1>4. Cardinality(S) <= Cap
  BY DEF Capped
<1>5. CASE ~p \/ Payee[t] # Payee[v]
  <2>1. T = S
    BY <1>1, <1>2, <1>5
  <2> QED
    BY <1>4, <2>1
<1>6. CASE p /\ Payee[t] = Payee[v]
  <2>1. ~(Cardinality(C) >= Cap)
    BY <1>3, <1>6 DEF TooMuch
  <2>2. S \subseteq C
    BY <1>6 DEF IndInv, LastHash
  <2>3. T = S \cup {t} /\ t \notin S
    BY <1>1, <1>2, <1>6
  <2>4. IsFiniteSet(C)
    BY FS_Subset, ConstantsAssumption DEF ConstantsAssumption
  <2>5. IsFiniteSet(S) /\ Cardinality(S) <= Cardinality(C)
    BY <2>2, <2>4, FS_Subset
  <2> HIDE DEF S, C
  <2>6. Cardinality(T) = Cardinality(S) + 1
    BY <2>3, <2>5, FS_AddElement
  <2>7. Cardinality(S) \in Nat /\ Cardinality(C) \in Nat /\ Cap \in Nat
    BY <2>4, <2>5, FS_CardinalityType, ConstantsAssumption DEF ConstantsAssumption
  <2> HIDE DEF T
  <2>8. Cardinality(T) <= Cap
    BY <2>1, <2>5, <2>6, <2>7
  <2> QED
    BY <2>8 DEF T
<1> QED
  BY <1>5, <1>6

(***************************************************************************)
(* No receiver has more than Cap rows with an amount.                      *)
(***************************************************************************)
THEOREM SubsidyCapped == Spec => []Capped
<1>1. Init => Capped
  <2> SUFFICES ASSUME Init, NEW t \in Transfer
               PROVE  Cardinality({u \in Transfer : row[u].pays /\ Payee[u] = Payee[t]}) <= Cap
    BY DEF Capped
  <2>1. {u \in Transfer : row[u].pays /\ Payee[u] = Payee[t]} = {}
    BY DEF Init, NoRow
  <2>2. 0 <= Cap
    BY ConstantsAssumption DEF ConstantsAssumption
  <2> QED
    BY <2>1, <2>2, FS_EmptySet
<1>2. IndInv /\ Capped /\ [Next]_vars => Capped'
  <2> SUFFICES ASSUME IndInv, Capped, [Next]_vars PROVE Capped'
    OBVIOUS
  <2>1. CASE \E t \in Transfer : Create(t)
    BY <2>1, CreateCapped
  <2>2. CASE ~(\E t \in Transfer : Create(t))
    <3>1. \A u \in Transfer : row'[u].pays = row[u].pays
      BY <2>2, SamePays DEF IndInv
    <3>2. \A t \in Transfer :
            {u \in Transfer : row'[u].pays /\ Payee[u] = Payee[t]} =
            {u \in Transfer : row[u].pays /\ Payee[u] = Payee[t]}
      BY <3>1
    <3> QED
      BY <3>2 DEF Capped
  <2> QED
    BY <2>1, <2>2
<1> QED
  BY <1>1, <1>2, Invariant, PTL DEF Spec

-----------------------------------------------------------------------------
(***************************************************************************)
(* The subsidies implement SubsidyOrders.                                  *)
(***************************************************************************)
\* A row that waits has sent something.
Waited == \A t \in Transfer : row[t].status \in {"P", "T"} => row[t].hash # 0

\* The variables of SubsidyOrders.
Granted_ == {t \in Transfer : row[t].pays}
Refused_ == {t \in Transfer : row[t].status # "none" /\ ~row[t].pays}
Orders_  == [t \in Transfer |-> row[t].hash]
Live_    == {t \in Transfer : row[t].status \in {"P", "T"}}
Paid_    == {<<a.tx, a.n>> : a \in {b \in sent : Paid(b)}}
Done_    == {t \in Transfer : row[t].status = "D"}
bar      == <<Granted_, Refused_, Orders_, Live_, Paid_, Done_>>

\* An order is paid when its transfer was executed.
LEMMA PaidIs ==
  ASSUME NEW t, NEW n
  PROVE  <<t, n>> \in Paid_ <=> Executed(t, n)
BY DEF Paid_, Paid, Executed

\* What a write of the status makes of the sets of rows.
LEMMA StatusBar ==
  ASSUME TypeOK, NEW t \in Transfer, row[t].status # "none",
         NEW s \in {"D", "F", "T", "UE"},
         row' = [row EXCEPT ![t].status = s, ![t].stale = FALSE]
  PROVE  /\ UNCHANGED <<Granted_, Refused_, Orders_>>
         /\ s = "T" => Live_' = Live_ \cup {t}
         /\ s # "T" => Live_' = Live_ \ {t}
         /\ s = "D" => Done_' = Done_ \cup {t}
         /\ s # "D" => Done_' = Done_ \ {t}
<1>1. /\ \A u \in Transfer : u # t => row'[u] = row[u]
      /\ row'[t].status = s /\ row'[t].hash = row[t].hash
      /\ row'[t].pays = row[t].pays
  BY DEF TypeOK, Row
<1>2. \A u \in Transfer : row'[u].hash = row[u].hash /\ row'[u].pays = row[u].pays
  BY <1>1
<1>3. \A u \in Transfer : row'[u].status # "none" <=> row[u].status # "none"
  BY <1>1
<1>4. UNCHANGED <<Granted_, Refused_, Orders_>>
  BY <1>2, <1>3 DEF Granted_, Refused_, Orders_
<1>5. /\ s = "T" => Live_' = Live_ \cup {t}
      /\ s # "T" => Live_' = Live_ \ {t}
  BY <1>1 DEF Live_
<1>6. /\ s = "D" => Done_' = Done_ \cup {t}
      /\ s # "D" => Done_' = Done_ \ {t}
  BY <1>1 DEF Done_
<1> QED
  BY <1>4, <1>5, <1>6

\* A status is written that settles a row or gives its order up.
LEMMA StatusOrders ==
  ASSUME TypeOK, NEW t \in Transfer, NEW old, row[t].status \notin {"none", "D"},
         NEW s \in {"D", "F", "T", "UE"},
         SetGasSubsidyStatus(t, old, s), UNCHANGED sent,
         s = "D" => ~row[t].pays \/ (t \in Live_ /\ Executed(t, row[t].hash)),
         s # "D" => t \in Live_,
         s \in {"F", "UE"} => ~Executed(t, row[t].hash)
  PROVE  Orders!Settle(t) \/ Orders!GiveUp(t) \/ UNCHANGED bar
<1>1. CASE row' = row
  BY <1>1 DEF bar, Granted_, Refused_, Orders_, Live_, Paid_, Done_
<1>2. CASE row' = [row EXCEPT ![t].status = s, ![t].stale = FALSE]
  <2>1. UNCHANGED Paid_
    BY DEF Paid_
  <2>2. t \notin Done_
    BY DEF Done_
  <2>3. <<t, Orders_[t]>> \in Paid_ <=> Executed(t, row[t].hash)
    BY PaidIs DEF Orders_
  <2>4. CASE s = "D"
    <3>1. t \in Refused_ \/ (t \in Live_ /\ <<t, Orders_[t]>> \in Paid_)
      BY <2>3, <2>4 DEF Refused_
    <3> QED
      BY <1>2, <2>1, <2>4, <3>1, StatusBar
         DEF Orders!Settle, Granted_, Refused_, Orders_, Live_, Paid_, Done_
  <2>5. CASE s \in {"F", "UE"}
    BY <1>2, <2>1, <2>2, <2>3, <2>5, StatusBar
       DEF Orders!GiveUp, Granted_, Refused_, Orders_, Live_, Paid_, Done_
  <2>6. CASE s = "T"
    <3>1. /\ UNCHANGED <<Granted_, Refused_, Orders_>>
          /\ Live_' = Live_ \cup {t} /\ Done_' = Done_ \ {t} /\ t \in Live_
      BY <1>2, <2>6, StatusBar
    <3> QED
      BY <2>1, <2>2, <3>1 DEF bar
  <2> QED
    BY <2>4, <2>5, <2>6
<1> QED
  BY <1>1, <1>2 DEF SetGasSubsidyStatus

LEMMA HandleTimedOutOrders ==
  ASSUME IndInv, Waited, NEW t \in Transfer, HandleTimedOut(t), UNCHANGED sent,
         row[t].status \in {"P", "T"}
  PROVE  Orders!Settle(t) \/ Orders!GiveUp(t) \/ UNCHANGED bar
<1>1. TypeOK /\ t \in Live_ /\ row[t].hash # 0
  BY DEF IndInv, Live_, Waited
<1>2. CASE Executed(t, row[t].hash)
  BY <1>1, <1>2, StatusOrders DEF HandleTimedOut
<1>3. CASE ~Executed(t, row[t].hash)
  BY <1>1, <1>3, StatusOrders DEF HandleTimedOut
<1> QED
  BY <1>2, <1>3

\* An order is issued for a row that waits for none.
LEMMA SendOrders ==
  ASSUME IndInv, Waited, NEW t \in Transfer, Send(t), UNCHANGED sent,
         row[t].status \notin {"none", "D", "T"}, row[t].retry < MaxRetry,
         ~(row[t].status = "P" /\ row[t].hash # 0)
  PROVE  \/ Orders!Settle(t) \/ Orders!GiveUp(t) \/ Orders!Issue(t)
         \/ UNCHANGED bar
<1>1. TypeOK /\ row[t] \in Row /\ row[t].hash = row[t].retry
  BY DEF IndInv, TypeOK, LastHash
<1>2. CASE ~row[t].pays /\ SetGasSubsidyStatus(t, row[t].status, "D")
  BY <1>1, <1>2, StatusOrders
<1>3. CASE UNCHANGED row
  BY <1>3 DEF bar, Granted_, Refused_, Orders_, Live_, Paid_, Done_
<1>4. CASE /\ row[t].pays
           /\ row' = [row EXCEPT ![t] =
                        [row[t] EXCEPT !.status = "P", !.hash = row[t].retry + 1,
                                       !.retry = row[t].retry + 1, !.stale = FALSE]]
  <2>1. /\ \A u \in Transfer : u # t => row'[u] = row[u]
        /\ row'[t].status = "P" /\ row'[t].hash = row[t].hash + 1
        /\ row'[t].pays
    BY <1>1, <1>4 DEF TypeOK, Row
  <2>2. /\ t \in Granted_ /\ t \notin Live_ /\ t \notin Done_
        /\ Orders_[t] = row[t].hash /\ Orders_[t] < MaxRetry
    BY <1>1, <1>4 DEF Granted_, Live_, Done_, Orders_, Waited
  <2>3. UNCHANGED <<Granted_, Refused_, Done_, Paid_>>
    BY <1>4, <2>1 DEF Granted_, Refused_, Done_, Paid_
  <2>4. Live_' = Live_ \cup {t}
    BY <2>1 DEF Live_
  <2>5. Orders_' = [Orders_ EXCEPT ![t] = Orders_[t] + 1]
    BY <2>1 DEF Orders_
  <2> QED
    BY <2>2, <2>3, <2>4, <2>5
       DEF Orders!Issue, Granted_, Refused_, Orders_, Live_, Paid_, Done_
<1> QED
  BY <1>2, <1>3, <1>4 DEF Send

\* The Cardinality of the instance is that of the module.
LEMMA SameCardinality ==
  ASSUME NEW S PROVE Orders!Cardinality(S) = Cardinality(S)
BY DEF Orders!Cardinality, Cardinality

\* A transaction is granted a subsidy while its receiver has less than Cap.
LEMMA CreateOrders ==
  ASSUME IndInv, NEW t \in Transfer, Create(t)
  PROVE  Orders!Grant(t) \/ Orders!Refuse(t)
<1> DEFINE p == t \in Subsidised /\ ~TooMuch(t)
<1>1. /\ row[t].status = "none" /\ row' = [row EXCEPT ![t] = NewRow(p)]
      /\ ~row[t].pays /\ row[t].hash = 0 /\ row \in [Transfer -> Row]
      /\ UNCHANGED sent
  BY DEF Create, IndInv, TypeOK, LastHash
<1>2. /\ row'[t].pays = p /\ row'[t].hash = 0 /\ row'[t].status = "N"
      /\ \A u \in Transfer : u # t => row'[u] = row[u]
  BY <1>1 DEF NewRow
<1>3. p => ~TooMuch(t)
  OBVIOUS
<1> HIDE DEF p
<1>4. UNCHANGED <<Orders_, Live_, Paid_, Done_>>
  BY <1>1, <1>2 DEF Orders_, Live_, Paid_, Done_
<1>5. t \notin Granted_ \cup Refused_
  BY <1>1 DEF Granted_, Refused_
<1>6. CASE ~p
  <2>1. Granted_' = Granted_ /\ Refused_' = Refused_ \cup {t}
    BY <1>1, <1>2, <1>6 DEF Granted_, Refused_
  <2> QED
    BY <1>4, <1>5, <2>1
       DEF Orders!Refuse, Granted_, Refused_, Orders_, Live_, Paid_, Done_
<1>7. CASE p
  <2> DEFINE S == {u \in Granted_ : Payee[u] = Payee[t]}
             C == {u \in Transfer : row[u].status # "none" /\ Payee[u] = Payee[t]}
  <2>1. Granted_' = Granted_ \cup {t} /\ Refused_' = Refused_
    BY <1>1, <1>2, <1>7 DEF Granted_, Refused_
  <2>2. ~(Cardinality(C) >= Cap)
    BY <1>3, <1>7 DEF TooMuch
  <2>3. S \subseteq C
    BY DEF IndInv, LastHash, Granted_
  <2>4. IsFiniteSet(C)
    BY FS_Subset, ConstantsAssumption DEF ConstantsAssumption
  <2> HIDE DEF C
  <2>5. IsFiniteSet(S) /\ Cardinality(S) <= Cardinality(C)
    BY <2>3, <2>4, FS_Subset
  <2>6. Cardinality(S) \in Nat /\ Cardinality(C) \in Nat /\ Cap \in Nat
    BY <2>4, <2>5, FS_CardinalityType, ConstantsAssumption DEF ConstantsAssumption
  <2> HIDE DEF S
  <2>7. Cardinality(S) < Cap
    BY <2>2, <2>5, <2>6
  <2>8. Cardinality({u \in Granted_ : Payee[u] = Payee[t]}) < Cap
    BY <2>7 DEF S
  <2> QED
    BY <1>4, <1>5, <2>1, <2>8, SameCardinality
       DEF Orders!Grant, Granted_, Refused_, Orders_, Live_, Paid_, Done_
<1> QED
  BY <1>6, <1>7

\* An attempt that was submitted, and not executed, pays nothing.
LEMMA SubmitOrders ==
  ASSUME NEW f, sent' = sent \/ sent' = sent \cup {AttemptOf(f)}, UNCHANGED row
  PROVE  UNCHANGED bar
<1>1. ~Paid(AttemptOf(f))
  BY DEF Paid, AttemptOf
<1>2. {b \in sent' : Paid(b)} = {b \in sent : Paid(b)}
  BY <1>1
<1>3. UNCHANGED Paid_
  BY <1>2 DEF Paid_, Paid
<1> QED
  BY <1>3 DEF bar, Granted_, Refused_, Orders_, Live_, Done_

\* The chain pays an order that was issued, once.
LEMMA ChainOrders ==
  ASSUME IndInv, NEW a \in sent, ChainRuns(a)
  PROVE  Orders!Next \/ UNCHANGED bar
<1>1. PICK fate \in {IF GivenUp(a) THEN "late" ELSE "executed", "aborted"} :
        sent' = (sent \ {a}) \cup {[a EXCEPT !.fate = fate]}
  BY DEF ChainRuns
<1>2. a.fate = "pending" /\ UNCHANGED row
  BY DEF ChainRuns
<1>3. a \in Attempt
  BY DEF IndInv, TypeOK
<1> DEFINE new == [a EXCEPT !.fate = fate]
<1>4. new.tx = a.tx /\ new.n = a.n /\ new.fate = fate
  BY <1>3 DEF Attempt
<1> HIDE DEF new
<1>5. sent' = (sent \ {a}) \cup {new}
  BY <1>1 DEF new
<1>6. ~Paid(a)
  BY <1>2 DEF Paid
<1>7. UNCHANGED <<Granted_, Refused_, Orders_, Live_, Done_>>
  BY <1>2 DEF Granted_, Refused_, Orders_, Live_, Done_
<1>8. CASE ~Paid(new)
  <2>1. {b \in sent' : Paid(b)} = {b \in sent : Paid(b)}
    BY <1>5, <1>6, <1>8
  <2>2. UNCHANGED Paid_
    BY <2>1 DEF Paid_, Paid
  <2> QED
    BY <1>7, <2>2 DEF bar
<1>9. CASE Paid(new)
  <2>1. {b \in sent' : Paid(b)} = {b \in sent : Paid(b)} \cup {new}
    BY <1>5, <1>6, <1>9
  <2>2. Paid_' = {<<b.tx, b.n>> : b \in {b \in sent : Paid(b)} \cup {new}}
    BY <2>1 DEF Paid_, Paid
  <2>3. Paid_' = Paid_ \cup {<<a.tx, a.n>>}
    BY <1>4, <2>2 DEF Paid_
  <2>4. <<a.tx, a.n>> \notin Paid_
    <3>1. \A b \in sent : b.tx = a.tx /\ b.n = a.n => b = a
      BY DEF IndInv, Numbered
    <3>2. ~Executed(a.tx, a.n)
      BY <1>2, <3>1 DEF Executed
    <3> QED
      BY <3>2, PaidIs
  <2>5. a.tx \in Transfer /\ a.n \in 1..MaxRetry /\ a.n <= row[a.tx].hash
    BY <1>3 DEF Attempt, IndInv, Numbered
  <2>6. row[a.tx].hash \in 0..MaxRetry
    BY <2>5 DEF IndInv, TypeOK, Row
  <2>7. a.n \in 1..Orders_[a.tx]
    BY <2>5, <2>6, ConstantsAssumption DEF Orders_, ConstantsAssumption
  <2>8. Orders!Pay(a.tx, a.n)
    BY <1>7, <2>3, <2>4, <2>7
       DEF Orders!Pay, Granted_, Refused_, Orders_, Live_, Paid_, Done_
  <2> QED
    BY <2>5, <2>8 DEF Orders!Next
<1> QED
  BY <1>8, <1>9

\* A row that waits has sent something: only a transfer that is in flight
\* makes its row P, and T.
LEMMA WaitedWrite ==
  ASSUME TypeOK, Waited, NEW t \in Transfer, NEW old, NEW s \in {"D", "F", "T", "UE"},
         SetGasSubsidyStatus(t, old, s), s = "T" => row[t].hash # 0
  PROVE  Waited'
<1>1. CASE row' = row
  BY <1>1 DEF Waited
<1>2. CASE row' = [row EXCEPT ![t].status = s, ![t].stale = FALSE]
  <2>1. /\ \A u \in Transfer : u # t => row'[u] = row[u]
        /\ row'[t].status = s /\ row'[t].hash = row[t].hash
    BY <1>2 DEF TypeOK, Row
  <2> QED
    BY <2>1 DEF Waited
<1> QED
  BY <1>1, <1>2 DEF SetGasSubsidyStatus

LEMMA WaitedTimedOut ==
  ASSUME TypeOK, Waited, NEW t \in Transfer, HandleTimedOut(t)
  PROVE  Waited'
BY WaitedWrite DEF HandleTimedOut

LEMMA WaitedSend ==
  ASSUME IndInv, Waited, NEW t \in Transfer, Send(t)
  PROVE  Waited'
<1>1. TypeOK /\ row \in [Transfer -> Row]
  BY DEF IndInv, TypeOK
<1>2. CASE SetGasSubsidyStatus(t, row[t].status, "D")
  BY <1>1, <1>2, WaitedWrite
<1>3. CASE UNCHANGED row
  BY <1>3 DEF Waited
<1>4. CASE row' = [row EXCEPT ![t] =
                     [row[t] EXCEPT !.status = "P", !.hash = row[t].retry + 1,
                                    !.retry = row[t].retry + 1, !.stale = FALSE]]
  <2>1. /\ \A u \in Transfer : u # t => row'[u] = row[u]
        /\ row'[t].hash = row[t].retry + 1 /\ row[t].retry \in 0..MaxRetry
    BY <1>1, <1>4 DEF Row
  <2>2. row'[t].hash # 0
    BY <2>1, ConstantsAssumption DEF ConstantsAssumption
  <2> QED
    BY <2>1, <2>2 DEF Waited
<1> QED
  BY <1>2, <1>3, <1>4 DEF Send

LEMMA WaitedStep ==
  ASSUME IndInv, Waited, [Next]_vars
  PROVE  Waited'
<1>1. TypeOK /\ row \in [Transfer -> Row]
  BY DEF IndInv, TypeOK
<1>2. CASE UNCHANGED row
  BY <1>2 DEF Waited
<1>3. ASSUME NEW t \in Transfer,
             \/ HandleNotSentGasSubsidy(t)
             \/ HandleTimedOutGasSubsidy(t)
             \/ HandleFailedGasSubsidy(t)
      PROVE  Waited'
  BY <1>1, <1>2, <1>3, WaitedSend, WaitedTimedOut
     DEF HandleNotSentGasSubsidy, HandleTimedOutGasSubsidy, HandleFailedGasSubsidy
<1>4. ASSUME NEW t \in Transfer, Create(t) PROVE Waited'
  <2>1. row'[t].status = "N" /\ \A u \in Transfer : u # t => row'[u] = row[u]
    BY <1>1, <1>4 DEF Create, NewRow
  <2> QED
    BY <2>1 DEF Waited
<1>5. ASSUME NEW f \in flight, WaitTransactionConfirm(f) PROVE Waited'
  <2>1. f.tx \in Transfer /\ row[f.tx].hash # 0
    BY DEF IndInv, TypeOK, Flight, InFlight
  <2> QED
    BY <1>1, <1>2, <1>5, <2>1, WaitedWrite DEF WaitTransactionConfirm
<1>6. ASSUME NEW t \in Transfer, TimePasses(t) PROVE Waited'
  <2>1. \A u \in Transfer : /\ row'[u].status = row[u].status
                            /\ row'[u].hash = row[u].hash
    BY <1>1, <1>6 DEF TimePasses, Row
  <2> QED
    BY <2>1 DEF Waited
<1>7. CASE MonitorStep
  BY <1>2, <1>3, <1>4, <1>5, <1>7 DEF MonitorStep, EndCreate,
     NoNotSentGasSubsidy, NoTimedOutGasSubsidy, NoFailedGasSubsidy,
     SubmitSignedTransaction, SubmitFails
<1> QED
  BY <1>2, <1>6, <1>7 DEF Next, vars, PolyTxProcessed, ChainRuns, Crash

\* A step of MonitorGasSubsidy is a step of SubsidyOrders or none.
LEMMA MonitorOrders ==
  ASSUME IndInv, Waited, MonitorStep
  PROVE  Orders!Next \/ UNCHANGED bar
<1>1. CASE UNCHANGED <<row, sent>>
  BY <1>1 DEF bar, Granted_, Refused_, Orders_, Live_, Paid_, Done_
<1>2. ASSUME NEW t \in Transfer, HandleNotSentGasSubsidy(t)
      PROVE  Orders!Next \/ UNCHANGED bar
  <2>1. /\ row[t].status \notin {"none", "D", "T"} /\ row[t].hash = 0
        /\ Send(t) /\ UNCHANGED sent
    BY <1>2 DEF HandleNotSentGasSubsidy, NotSent
  <2>2. row[t].retry < MaxRetry
    BY <2>1, ConstantsAssumption DEF IndInv, LastHash, ConstantsAssumption
  <2> QED
    BY <2>1, <2>2, SendOrders DEF Orders!Next
<1>3. ASSUME NEW t \in Transfer, HandleTimedOutGasSubsidy(t)
      PROVE  Orders!Next \/ UNCHANGED bar
  <2>1. /\ row[t].status = "T" /\ UNCHANGED sent
        /\ HandleTimedOut(t) \/ UNCHANGED row
    BY <1>3 DEF HandleTimedOutGasSubsidy, TimedOut
  <2> QED
    BY <1>1, <2>1, HandleTimedOutOrders DEF Orders!Next
<1>4. ASSUME NEW t \in Transfer, HandleFailedGasSubsidy(t)
      PROVE  Orders!Next \/ UNCHANGED bar
  <2>1. /\ row[t].status \notin {"none", "D", "T"} /\ row[t].retry < MaxRetry
        /\ UNCHANGED sent
    BY <1>4 DEF HandleFailedGasSubsidy, Failed
  <2>2. CASE row[t].status = "P" /\ HandleTimedOut(t)
    BY <2>1, <2>2, HandleTimedOutOrders DEF Orders!Next
  <2>3. CASE UNCHANGED row
    BY <1>1, <2>1, <2>3
  <2>4. CASE ~(row[t].status = "P" /\ row[t].hash # 0) /\ Send(t)
    BY <2>1, <2>4, SendOrders DEF Orders!Next
  <2> QED
    BY <1>4, <2>2, <2>3, <2>4 DEF HandleFailedGasSubsidy
<1>5. ASSUME NEW t \in Transfer, Create(t)
      PROVE  Orders!Next \/ UNCHANGED bar
  BY <1>5, CreateOrders DEF Orders!Next
<1>6. ASSUME NEW f \in flight, SubmitSignedTransaction(f) \/ SubmitFails(f)
      PROVE  UNCHANGED bar
  <2>1. /\ sent' = sent \/ sent' = sent \cup {AttemptOf(f)}
        /\ UNCHANGED row
    BY <1>6 DEF SubmitSignedTransaction, SubmitFails
  <2> QED
    BY <2>1, SubmitOrders
<1>7. ASSUME NEW f \in flight, WaitTransactionConfirm(f)
      PROVE  Orders!Next \/ UNCHANGED bar
  <2>1. /\ f.tx \in Transfer /\ row[f.tx].hash = f.n /\ row[f.tx].status = "P"
        /\ UNCHANGED sent /\ TypeOK
    BY <1>7 DEF WaitTransactionConfirm, IndInv, TypeOK, Flight, InFlight
  <2>2. f.tx \in Live_
    BY <2>1 DEF Live_
  <2>3. CASE Executed(f.tx, f.n) /\ SetGasSubsidyStatus(f.tx, "P", "D")
    BY <2>1, <2>2, <2>3, StatusOrders DEF Orders!Next
  <2>4. CASE Aborted(f.tx, f.n) /\ SetGasSubsidyStatus(f.tx, "P", "F")
    <3>1. ~Executed(f.tx, f.n)
      BY <2>4 DEF Aborted, Executed, IndInv, Numbered
    <3> QED
      BY <2>1, <2>2, <2>4, <3>1, StatusOrders DEF Orders!Next
  <2>5. CASE SetGasSubsidyStatus(f.tx, "P", "T")
    BY <2>1, <2>2, <2>5, StatusOrders DEF Orders!Next
  <2>6. CASE UNCHANGED row
    BY <1>1, <2>1, <2>6
  <2> QED
    BY <1>7, <2>3, <2>4, <2>5, <2>6 DEF WaitTransactionConfirm
<1>8. CASE EndCreate \/ NoNotSentGasSubsidy \/ NoTimedOutGasSubsidy
           \/ NoFailedGasSubsidy
  BY <1>1, <1>8 DEF EndCreate, NoNotSentGasSubsidy, NoTimedOutGasSubsidy,
                    NoFailedGasSubsidy
<1> QED
  BY <1>2, <1>3, <1>4, <1>5, <1>6, <1>7, <1>8 DEF MonitorStep

(***************************************************************************)
(* The gas subsidies implement SubsidyOrders: the steps of the goroutine   *)
(* and of the chain make a step of it or none.                             *)
(***************************************************************************)
THEOREM SubsidyImplementsOrders == Spec => ImplementsOrders
<1>1. Init => Orders!Init /\ Waited
  <2> SUFFICES ASSUME Init PROVE Orders!Init /\ Waited
    OBVIOUS
  <2>1. /\ \A t \in Transfer : row[t] = NoRow
        /\ NoRow.status = "none" /\ ~NoRow.pays /\ NoRow.hash = 0
        /\ sent = {}
    BY DEF Init, NoRow
  <2>2. /\ Granted_ = {} /\ Refused_ = {} /\ Live_ = {} /\ Done_ = {}
        /\ Orders_ = [t \in Transfer |-> 0] /\ Paid_ = {}
    BY <2>1 DEF Granted_, Refused_, Live_, Done_, Orders_, Paid_
  <2> QED
    BY <2>1, <2>2 DEF Waited, Orders!Init, Granted_, Refused_, Live_, Done_,
                      Orders_, Paid_
<1>2. IndInv /\ Waited /\ [Next]_vars => Waited'
  BY WaitedStep
<1>3. ASSUME IndInv, Waited, [Next]_vars
      PROVE  Orders!Next \/ UNCHANGED bar
  <2>1. CASE MonitorStep
    BY <1>3, <2>1, MonitorOrders
  <2>2. ASSUME NEW a \in sent, ChainRuns(a)
        PROVE  Orders!Next \/ UNCHANGED bar
    BY <1>3, <2>2, ChainOrders
  <2>3. ASSUME NEW t \in Transfer, TimePasses(t) PROVE UNCHANGED bar
    <3>1. \A u \in Transfer : /\ row'[u].status = row[u].status
                              /\ row'[u].hash = row[u].hash
                              /\ row'[u].pays = row[u].pays
      BY <1>3, <2>3 DEF TimePasses, IndInv, TypeOK, Row
    <3>2. UNCHANGED sent
      BY <2>3 DEF TimePasses
    <3> QED
      BY <3>1, <3>2 DEF bar, Granted_, Refused_, Orders_, Live_, Paid_, Done_
  <2>4. CASE UNCHANGED <<row, sent>>
    BY <2>4 DEF bar, Granted_, Refused_, Orders_, Live_, Paid_, Done_
  <2> QED
    BY <1>3, <2>1, <2>2, <2>3, <2>4 DEF Next, vars, PolyTxProcessed, Crash
<1>4. UNCHANGED bar
        => UNCHANGED <<{t \in Transfer : row[t].pays},
                       {t \in Transfer : row[t].status # "none" /\ ~row[t].pays},
                       [t \in Transfer |-> row[t].hash],
                       {t \in Transfer : row[t].status \in {"P", "T"}},
                       {<<a.tx, a.n>> : a \in {b \in sent : Paid(b)}},
                       {t \in Transfer : row[t].status = "D"}>>
  BY DEF bar, Granted_, Refused_, Orders_, Live_, Paid_, Done_
<1> QED
  BY <1>1, <1>2, <1>3, <1>4, Invariant, PTL DEF Spec, ImplementsOrders, Orders!Spec
=============================================================================
