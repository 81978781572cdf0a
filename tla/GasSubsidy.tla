----------------------------- MODULE GasSubsidy -----------------------------
(***************************************************************************)
(* Gas subsidies: for a poly transaction processed on Starcoin the relayer *)
(* transfers some STC to its receiver, so that he can pay for gas.  One    *)
(* goroutine, MonitorGasSubsidy, writes the table gas_subsidy; the chain   *)
(* moves at any time between its steps.                                    *)
(*                                                                         *)
(* A tick has the phases create, notSent, timedOut and failed.  A phase    *)
(* that sends a transfer signs it with the sequence number the node gives, *)
(* writes the row (status P, hash), submits it and waits for it.           *)
(*                                                                         *)
(* The hash of a transfer is the number of the attempt that produced it    *)
(* (0 is the empty string).  Starcoin runs one transaction per sequence    *)
(* number: a pending one whose number is used up never runs.               *)
(***************************************************************************)
EXTENDS Naturals, FiniteSets

CONSTANTS
  Transfer,    \* the poly transactions of the chains that are subsidised
  Payee,       \* the receiver of each
  Unreadable,  \* those whose proof has no parameters to be read, or an amount
               \* that is no uint64
  Subsidised,  \* those not blacklisted and not below the minimal amount
  Cap,         \* rows per receiver before the amount is zero (3 in the code)
  MaxRetry,    \* GasSubsidyTxMaxRetryCount (10 in the code)
  MaxFaults    \* bound of the model: calls of the database or the node that
               \* fail, and crashes

ASSUME ConstantsAssumption ==
  /\ IsFiniteSet(Transfer)
  /\ DOMAIN Payee = Transfer
  /\ Unreadable \subseteq Transfer
  /\ Subsidised \subseteq Transfer
  /\ Cap \in Nat
  /\ MaxRetry \in Nat \ {0}
  /\ MaxFaults \in Nat

VARIABLES
  \* the database and the chain survive a crash
  due,         \* the transactions poly_tx says are processed
  row,         \* gas_subsidy
  next,        \* the sequence number of the sender's account on the chain
  sent,        \* the transfers submitted, with their fate
  \* the state of the goroutine does not
  phase,       \* where it is in its tick
  flight,      \* the transfer it is sending, if any
  faults

vars == <<due, row, next, sent, phase, flight, faults>>

\* New, Processing, Failed, processeD, TimedOut, Unknown Error.
Status == {"none", "N", "P", "F", "D", "T", "UE"}

Row == [status: Status, hash: 0..MaxRetry, retry: 0..MaxRetry, stale: BOOLEAN,
        pays: BOOLEAN]

NoRow == [status |-> "none", hash |-> 0, retry |-> 0, stale |-> FALSE,
          pays |-> FALSE]

NewRow(pays) == [status |-> "N", hash |-> 0, retry |-> 0, stale |-> FALSE,
                 pays |-> pays]

\* "late" is a transfer executed after its row had given it up.
Attempt == [tx: Transfer, n: 1..MaxRetry, seq: Nat,
            fate: {"pending", "executed", "late", "aborted"}]

Flight == [tx: Transfer, n: 1..MaxRetry, seq: Nat,
           stage: {"signed", "submitted"}]

TypeOK ==
  /\ due \in SUBSET Transfer
  /\ row \in [Transfer -> Row]
  /\ next \in Nat
  /\ sent \in SUBSET Attempt
  /\ phase \in {"create", "notSent", "timedOut", "failed"}
  /\ flight \in SUBSET Flight
  /\ faults \in 0..MaxFaults

Init ==
  /\ due = {}
  /\ row = [t \in Transfer |-> NoRow]
  /\ next = 0 /\ sent = {}
  /\ phase = "create" /\ flight = {}
  /\ faults = 0

Fault == faults < MaxFaults /\ faults' = faults + 1

Becomes(p) == phase' = p /\ flight' = {}

AfterSending == IF phase = "notSent" THEN "timedOut" ELSE "create"

-----------------------------------------------------------------------------
(***************************************************************************)
(* createGasSubsidies.  The list is read once, and a row of it that exists *)
(* already is ignored: a transaction processed while the loop runs might   *)
(* as well have been processed before it.  One that is unreadable is       *)
(* skipped, at every tick: it never has a row, and the others do.          *)
(***************************************************************************)
\* Mutant: one row more.
TooMuchOffByOne(t) ==
  Cardinality({u \in Transfer : row[u].status # "none" /\ Payee[u] = Payee[t]}) > Cap

TooMuch(t) ==
  Cardinality({u \in Transfer : row[u].status # "none" /\ Payee[u] = Payee[t]}) >= Cap

Create(t) ==
  /\ phase = "create"
  /\ t \in due \ Unreadable /\ row[t].status = "none"
  /\ row' = [row EXCEPT ![t] = NewRow(t \in Subsidised /\ ~TooMuch(t))]
  /\ UNCHANGED <<due, next, sent, phase, flight, faults>>

\* All the rows that can be made are there, or a query or an insert failed.
EndCreate ==
  /\ phase = "create"
  /\ \/ (\A t \in due \ Unreadable : row[t].status # "none") /\ UNCHANGED faults
     \/ Fault
  /\ Becomes("notSent")
  /\ UNCHANGED <<due, row, next, sent>>

-----------------------------------------------------------------------------
(***************************************************************************)
(* The statements of db/mysqldb.go.  The optimistic lock reads the hash in *)
(* the same call: what can be out of date is the old status.               *)
(***************************************************************************)
SetGasSubsidyStatus(t, oldStatus, status) ==
  row' = IF row[t].status = oldStatus
         THEN [row EXCEPT ![t].status = status, ![t].stale = FALSE]
         ELSE row

\* sendGasSubsidyTxToStarcoin up to the write of the row.  A row that pays
\* nothing is done at once.
Send(t) ==
  \/ /\ ~row[t].pays
     /\ SetGasSubsidyStatus(t, row[t].status, "D")
     /\ Becomes(AfterSending)
     /\ UNCHANGED faults
  \/ /\ row[t].pays
     /\ LET n == row[t].retry + 1 IN
          /\ row' = [row EXCEPT ![t] = [row[t] EXCEPT !.status = "P", !.hash = n,
                                          !.retry = n, !.stale = FALSE]]
          /\ flight' = {[tx |-> t, n |-> n, seq |-> next, stage |-> "signed"]}
     /\ UNCHANGED <<phase, faults>>
  \/ \* the node or the database does not answer
     /\ Fault
     /\ Becomes(AfterSending)
     /\ UNCHANGED row

\* Mutant: any transaction in a block counts as executed.
InABlock(t, n) ==
  \E a \in sent : a.tx = t /\ a.n = n /\ a.fate # "pending"

\* What Starcoin says of a transaction.
Executed(t, n) ==
  \E a \in sent : a.tx = t /\ a.n = n /\ a.fate \in {"executed", "late"}

\* handleTimedOutGasSubsidy.  Its callers pass rows older than
\* MAX_TIMEDOUT_TO_FAILED_WAITING_SECONDS, so a transfer Starcoin does not
\* know yet counts as failed.
HandleTimedOut(t) ==
  \/ /\ row[t].hash = 0
     /\ SetGasSubsidyStatus(t, row[t].status, "UE")
  \/ /\ row[t].hash # 0 /\ Executed(t, row[t].hash)
     /\ SetGasSubsidyStatus(t, row[t].status, "D")
  \/ /\ row[t].hash # 0 /\ ~Executed(t, row[t].hash)
     /\ SetGasSubsidyStatus(t, row[t].status, "F")

-----------------------------------------------------------------------------
(***************************************************************************)
(* MonitorGasSubsidy.  Its three queries have LIMIT 1 and no order: any    *)
(* row that satisfies one may be the one returned, and the last two then   *)
(* do nothing when that row is not stale.                                  *)
(***************************************************************************)
NotSent(t) == row[t].hash = 0 /\ row[t].status \notin {"none", "D", "T"}

TimedOut(t) == row[t].status = "T"

\* Mutant: a failed transfer is not tried again.
FailedButNotTried(t) ==
  row[t].retry < MaxRetry /\ row[t].status \notin {"none", "D", "T", "F"}

\* Mutant: one retry too many.
FailedOnceMore(t) == row[t].retry <= MaxRetry /\ row[t].status \notin {"none", "D", "T"}

Failed(t) == row[t].retry < MaxRetry /\ row[t].status \notin {"none", "D", "T"}

HandleNotSentGasSubsidy(t) ==
  /\ phase = "notSent" /\ flight = {}
  /\ NotSent(t)
  /\ Send(t)
  /\ UNCHANGED <<due, next, sent>>

NoNotSentGasSubsidy ==
  /\ phase = "notSent" /\ flight = {}
  /\ \/ (\A t \in Transfer : ~NotSent(t)) /\ UNCHANGED faults
     \/ Fault
  /\ Becomes("timedOut")
  /\ UNCHANGED <<due, row, next, sent>>

HandleTimedOutGasSubsidy(t) ==
  /\ phase = "timedOut"
  /\ TimedOut(t) /\ row[t].stale
  /\ \/ HandleTimedOut(t) /\ UNCHANGED faults
     \/ Fault /\ UNCHANGED row
  /\ Becomes("failed")
  /\ UNCHANGED <<due, next, sent>>

\* An error ends the tick.
NoTimedOutGasSubsidy ==
  /\ phase = "timedOut"
  /\ \/ /\ \/ \A t \in Transfer : ~TimedOut(t)
           \/ \E t \in Transfer : TimedOut(t) /\ ~row[t].stale
        /\ Becomes("failed")
        /\ UNCHANGED faults
     \/ Fault /\ Becomes("create")
  /\ UNCHANGED <<due, row, next, sent>>

\* Mutant: a row in processing is sent again without asking Starcoin.
ResendsAtOnce(t) ==
  /\ phase = "failed" /\ flight = {}
  /\ Failed(t) /\ row[t].stale
  /\ Send(t)
  /\ UNCHANGED <<due, next, sent>>

\* A row in processing that has a hash may just have timed out.
HandleFailedGasSubsidy(t) ==
  /\ phase = "failed" /\ flight = {}
  /\ Failed(t) /\ row[t].stale
  /\ \/ /\ row[t].status = "P" /\ row[t].hash # 0
        /\ \/ HandleTimedOut(t) /\ UNCHANGED faults
           \/ Fault /\ UNCHANGED row
        /\ Becomes("create")
     \/ /\ ~(row[t].status = "P" /\ row[t].hash # 0)
        /\ Send(t)
  /\ UNCHANGED <<due, next, sent>>

NoFailedGasSubsidy ==
  /\ phase = "failed" /\ flight = {}
  /\ \/ (\A t \in Transfer : ~Failed(t)) /\ UNCHANGED faults
     \/ (\E t \in Transfer : Failed(t) /\ ~row[t].stale) /\ UNCHANGED faults
     \/ Fault
  /\ Becomes("create")
  /\ UNCHANGED <<due, row, next, sent>>

-----------------------------------------------------------------------------
(***************************************************************************)
(* The rest of sendGasSubsidyTxToStarcoin.                                 *)
(***************************************************************************)
AttemptOf(f) == [tx |-> f.tx, n |-> f.n, seq |-> f.seq, fate |-> "pending"]

SubmitSignedTransaction(f) ==
  /\ f \in flight /\ f.stage = "signed"
  /\ f.seq >= next
  /\ sent' = sent \cup {AttemptOf(f)}
  /\ flight' = {[f EXCEPT !.stage = "submitted"]}
  /\ UNCHANGED <<due, row, next, phase, faults>>

\* The node refuses a number that is used up, or its answer is an error or
\* is lost: the transfer may be in its pool all the same.
SubmitFails(f) ==
  /\ f \in flight /\ f.stage = "signed"
  /\ \/ f.seq < next /\ UNCHANGED <<sent, faults>>
     \/ Fault /\ UNCHANGED sent
     \/ f.seq >= next /\ Fault /\ sent' = sent \cup {AttemptOf(f)}
  /\ Becomes(AfterSending)
  /\ UNCHANGED <<due, row, next>>

Aborted(t, n) ==
  \E a \in sent : a.tx = t /\ a.n = n /\ a.fate = "aborted"

\* Mutant: a wait that times out counts as a failure.
TimeoutIsFailure(f) ==
  /\ f \in flight /\ f.stage = "submitted"
  /\ \/ /\ Executed(f.tx, f.n)
        /\ SetGasSubsidyStatus(f.tx, "P", "D")
        /\ UNCHANGED faults
     \/ SetGasSubsidyStatus(f.tx, "P", "F") /\ UNCHANGED faults
     \/ Fault /\ UNCHANGED row
  /\ Becomes(AfterSending)
  /\ UNCHANGED <<due, next, sent>>

\* It may time out whatever has happened to the transfer meanwhile, and a
\* status that is not a known failure counts as a time-out.
WaitTransactionConfirm(f) ==
  /\ f \in flight /\ f.stage = "submitted"
  /\ \/ /\ Executed(f.tx, f.n)
        /\ SetGasSubsidyStatus(f.tx, "P", "D")
        /\ UNCHANGED faults
     \/ /\ Aborted(f.tx, f.n)
        /\ SetGasSubsidyStatus(f.tx, "P", "F")
        /\ UNCHANGED faults
     \/ SetGasSubsidyStatus(f.tx, "P", "T") /\ UNCHANGED faults
     \/ Fault /\ UNCHANGED row
  /\ Becomes(AfterSending)
  /\ UNCHANGED <<due, next, sent>>

-----------------------------------------------------------------------------
(***************************************************************************)
(* The environment: poly_tx, Starcoin, the clock and the operating system. *)
(***************************************************************************)
PolyTxProcessed(t) ==
  /\ t \notin due
  /\ due' = due \cup {t}
  /\ UNCHANGED <<row, next, sent, phase, flight, faults>>

\* The row has moved on from this attempt.
GivenUp(a) == row[a.tx].hash # a.n \/ row[a.tx].status \notin {"P", "T"}

ChainRuns(a) ==
  /\ a \in sent /\ a.fate = "pending" /\ a.seq = next
  /\ \E fate \in {IF GivenUp(a) THEN "late" ELSE "executed", "aborted"} :
       sent' = (sent \ {a}) \cup {[a EXCEPT !.fate = fate]}
  /\ next' = next + 1
  /\ UNCHANGED <<due, row, phase, flight, faults>>

\* GasSubsidyTxMaxProcessingSeconds after the last write of the row: nobody
\* looks at the age of a row that is done.
TimePasses(t) ==
  /\ row[t].status \notin {"none", "D"} /\ ~row[t].stale
  /\ row' = [row EXCEPT ![t].stale = TRUE]
  /\ UNCHANGED <<due, next, sent, phase, flight, faults>>

Crash ==
  /\ Fault
  /\ Becomes("create")
  /\ UNCHANGED <<due, row, next, sent>>

MonitorStep ==
  \/ \E t \in Transfer : \/ Create(t)
                         \/ HandleNotSentGasSubsidy(t)
                         \/ HandleTimedOutGasSubsidy(t)
                         \/ HandleFailedGasSubsidy(t)
  \/ \E f \in flight : \/ SubmitSignedTransaction(f)
                       \/ SubmitFails(f)
                       \/ WaitTransactionConfirm(f)
  \/ EndCreate
  \/ NoNotSentGasSubsidy
  \/ NoTimedOutGasSubsidy
  \/ NoFailedGasSubsidy

Next ==
  \/ MonitorStep
  \/ \E t \in Transfer : PolyTxProcessed(t) \/ TimePasses(t)
  \/ \E a \in sent : ChainRuns(a)
  \/ Crash

\* The goroutine runs and the clock goes on; Starcoin promises nothing.
Spec == /\ Init /\ [][Next]_vars
        /\ WF_vars(MonitorStep)
        /\ \A t \in Transfer : WF_vars(TimePasses(t))

-----------------------------------------------------------------------------
(***************************************************************************)
(* Properties.                                                             *)
(***************************************************************************)
Paid(a) == a.fate \in {"executed", "late"}

(* A transaction is subsidised once: of two transfers that both ran, one   *)
(* ran only after its row had given it up.  What the relayer waits for it  *)
(* never sends again, across crashes between the write of the row, the     *)
(* submission and the confirmation.                                        *)
PaidOnce ==
  \A a, b \in sent :
    a.tx = b.tx /\ a # b /\ Paid(a) /\ Paid(b) => "late" \in {a.fate, b.fate}

(* A row that is done has paid what it had to: a lost submission, an       *)
(* aborted transfer or one overtaken by another never counts as done.      *)
DoneIsPaid ==
  \A t \in Transfer :
    row[t].status = "D" /\ row[t].pays => \E a \in sent : a.tx = t /\ Paid(a)

(* A receiver gets at most Cap subsidies, however many of his transactions *)
(* are processed and in whatever order their rows are created.             *)
Capped ==
  \A t \in Transfer :
    Cardinality({u \in Transfer : row[u].pays /\ Payee[u] = Payee[t]}) <= Cap

(* Every processed transaction has its subsidy paid, or all its retries    *)
(* used: no row is forgotten in a state that no query selects, and one     *)
(* that cannot be read does not hold the others up.  That one itself is    *)
(* listed at every tick and gets nothing.                                  *)
Settled ==
  \A t \in Transfer \ Unreadable :
    t \in due ~> row[t].status = "D" \/ row[t].retry = MaxRetry

(* The subsidies implement SubsidyOrders: the hash of a row numbers its     *)
(* orders, P and T wait for the last of them, and the chain pays the        *)
(* transfers it executes.                                                   *)
Orders == INSTANCE SubsidyOrders WITH
  granted <- {t \in Transfer : row[t].pays},
  refused <- {t \in Transfer : row[t].status # "none" /\ ~row[t].pays},
  orders  <- [t \in Transfer |-> row[t].hash],
  live    <- {t \in Transfer : row[t].status \in {"P", "T"}},
  paid    <- {<<a.tx, a.n>> : a \in {b \in sent : Paid(b)}},
  done    <- {t \in Transfer : row[t].status = "D"}

(* Whatever fails and whenever the process dies, a step of the goroutine   *)
(* or of Starcoin is a step of SubsidyOrders or none: no order while one   *)
(* may still be paid in time, none given up that was paid, none once the   *)
(* transfer is done.                                                       *)
ImplementsOrders == Orders!Spec
=============================================================================
