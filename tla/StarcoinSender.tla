--------------------------- MODULE StarcoinSender ---------------------------
(***************************************************************************)
(* A sender of Starcoin transactions: a channel and a worker goroutine for *)
(* each router, made by the first monitor that draws the router, and the   *)
(* sequence numbers of the account, which the workers take from the        *)
(* SeqNumManager; changeBookKeeper takes one in MonitorChain's goroutine.  *)
(* What a job is and what becomes of its row is the subject of             *)
(* PolyTxRelay: here it takes a number and submits a transaction with it.  *)
(* Starcoin executes an account's transactions in the order of their       *)
(* numbers and leaves none out.                                            *)
(*                                                                         *)
(* ReturnSeqNum, DecreaseAccountSeqNum and clearSeqNum have no callers.    *)
(***************************************************************************)
EXTENDS Naturals

CONSTANTS
  Monitor,     \* the goroutines that call sendPolyTxToStarcoin
  Keepers,     \* those that call changeBookKeeper: MonitorChain
  Router,      \* RoutineNum of them
  ChanLen,     \* what a channel holds (64 in the code)
  First,       \* the number of the account on Starcoin at first
  None,
  MaxJobs,     \* bound of the model: jobs
  MaxFaults    \* bound of the model: failed calls and crashes

\* A channel and its worker are known by the router and who made them.
Chan == Router \X Monitor

\* Who takes sequence numbers: the workers and the book keepers' monitor.
Holder == Chan \cup Keepers

ASSUME SenderConstants ==
  /\ Keepers \subseteq Monitor /\ Monitor \cap Chan = {}
  /\ ChanLen \in Nat \ {0}
  /\ First \in Nat /\ MaxJobs \in Nat /\ MaxFaults \in Nat
  /\ None \notin Nat /\ None \notin Router \X Monitor

VARIABLES
  onchain,     \* Starcoin: the next number of the account
  pool,        \* Starcoin: the numbers of the pending transactions
  number,      \* accountSeqNum of the account, None if there is no entry
  cmap,        \* the channel of a router, None if there is no entry
  made,        \* the channels that have a worker
  length,      \* how many jobs wait in a channel
  holds,       \* the number a holder has taken, None if it is idle
  monitor,     \* where a monitor is in sendPolyTxToStarcoin
  first, done, lost,  \* history since the start: the first number, those the
                      \* holders are done with, those no transaction got
  jobs, faults

node == <<onchain, pool>>
history == <<first, done, lost>>
vars == <<onchain, pool, number, cmap, made, length, holds, monitor, first,
          done, lost, jobs, faults>>

Idle == [pc |-> "idle", router |-> None, chan |-> None]

TypeOK ==
  /\ onchain \in Nat /\ pool \in SUBSET Nat
  /\ number \in Nat \cup {None}
  /\ made \in SUBSET Chan
  /\ cmap \in [Router -> made \cup {None}]
  /\ length \in [Chan -> 0..ChanLen]
  /\ holds \in [Holder -> Nat \cup {None}]
  /\ monitor \in [Monitor -> [pc: {"idle", "make", "send"},
                              router: Router \cup {None},
                              chan: made \cup {None}]]
  /\ first \in Nat /\ done \in SUBSET Nat /\ lost \in SUBSET Nat
  /\ jobs \in 0..MaxJobs
  /\ faults \in 0..MaxFaults

Init ==
  /\ onchain = First /\ pool = {}
  /\ number = None
  /\ cmap = [r \in Router |-> None] /\ made = {}
  /\ length = [c \in Chan |-> 0] /\ holds = [h \in Holder |-> None]
  /\ monitor = [m \in Monitor |-> Idle]
  /\ first = 0 /\ done = {} /\ lost = {}
  /\ jobs = 0 /\ faults = 0

Fault == faults < MaxFaults /\ faults' = faults + 1

-----------------------------------------------------------------------------
(***************************************************************************)
(* sendPolyTxToStarcoin, from the choice of the router.  The map is read   *)
(* and written without a lock: two monitors may both find no channel, and  *)
(* the second to make one replaces the first's, whose worker lives on.     *)
(***************************************************************************)
Free(m) == monitor[m].pc = "idle" /\ (m \in Keepers => holds[m] = None)

GetRouter(m, r) ==
  /\ Free(m)
  /\ jobs < MaxJobs /\ jobs' = jobs + 1
  /\ monitor' = [monitor EXCEPT ![m] =
                   IF cmap[r] = None
                   THEN [pc |-> "make", router |-> r, chan |-> None]
                   ELSE [pc |-> "send", router |-> r, chan |-> cmap[r]]]
  /\ UNCHANGED <<node, number, cmap, made, length, holds, history, faults>>

MakeChan(m) ==
  /\ monitor[m].pc = "make"
  /\ LET c == <<monitor[m].router, m>> IN
       /\ made' = made \cup {c}
       /\ cmap' = [cmap EXCEPT ![monitor[m].router] = c]
       /\ monitor' = [monitor EXCEPT ![m] =
                        [pc |-> "send", router |-> monitor[m].router, chan |-> c]]
  /\ UNCHANGED <<node, number, length, holds, history, jobs, faults>>

\* Mutant: a channel without a bound.
SendUnbounded(m) ==
  /\ monitor[m].pc = "send"
  /\ length' = [length EXCEPT ![monitor[m].chan] = length[monitor[m].chan] + 1]
  /\ monitor' = [monitor EXCEPT ![m] = Idle]
  /\ UNCHANGED <<node, number, cmap, made, holds, history, jobs, faults>>

\* "TODO:: could be blocked"
SendJob(m) ==
  /\ monitor[m].pc = "send"
  /\ length[monitor[m].chan] < ChanLen
  /\ length' = [length EXCEPT ![monitor[m].chan] = length[monitor[m].chan] + 1]
  /\ monitor' = [monitor EXCEPT ![m] = Idle]
  /\ UNCHANGED <<node, number, cmap, made, holds, history, jobs, faults>>

-----------------------------------------------------------------------------
(***************************************************************************)
(* Numbers: sendTxToStarcoin of a worker, changeBookKeeper of a monitor.   *)
(***************************************************************************)
\* Mutant: the first number is not counted.
GetWithoutCounting(h) ==
  \/ /\ number # None
     /\ holds' = [holds EXCEPT ![h] = number] /\ number' = number + 1
     /\ UNCHANGED <<first, faults>>
  \/ /\ number = None
     /\ number' = onchain /\ first' = onchain
     /\ holds' = [holds EXCEPT ![h] = onchain] /\ UNCHANGED faults

\* Mutant: the first number is counted twice.
GetCountingTwice(h) ==
  \/ /\ number # None
     /\ holds' = [holds EXCEPT ![h] = number] /\ number' = number + 1
     /\ UNCHANGED <<first, faults>>
  \/ /\ number = None
     /\ number' = onchain + 2 /\ first' = onchain
     /\ holds' = [holds EXCEPT ![h] = onchain] /\ UNCHANGED faults

\* Under its lock.  The node is asked once: it answers with the number after
\* what is executed, whatever is pending.  When the call fails it is 0.
GetAccountSeqNum(h) ==
  \/ /\ number # None
     /\ holds' = [holds EXCEPT ![h] = number]
     /\ number' = number + 1
     /\ UNCHANGED <<first, faults>>
  \/ /\ number = None
     /\ \/ first' = onchain /\ UNCHANGED faults
        \/ first' = 0 /\ Fault
     /\ holds' = [holds EXCEPT ![h] = first']
     /\ number' = first' + 1

SendTxToStarcoin(c) ==
  /\ c \in made /\ holds[c] = None
  /\ length[c] > 0 /\ length' = [length EXCEPT ![c] = length[c] - 1]
  /\ GetAccountSeqNum(c)
  /\ UNCHANGED <<node, cmap, made, monitor, done, lost, jobs>>

\* From where it takes a number: what fails before changes nothing here.
ChangeBookKeeper(m) ==
  /\ m \in Keepers /\ Free(m)
  /\ jobs < MaxJobs /\ jobs' = jobs + 1
  /\ GetAccountSeqNum(m)
  /\ UNCHANGED <<node, cmap, made, length, monitor, done, lost>>

\* The transaction is waited for, for a limited time.
Finish(h) ==
  /\ holds[h] # None
  /\ holds' = [holds EXCEPT ![h] = None]
  /\ done' = done \cup {holds[h]}
  /\ UNCHANGED <<onchain, number, cmap, made, monitor, first, jobs>>

\* Mutant: waits for the transactions before it.
SubmitWhenNonePending(h) ==
  /\ Finish(h) /\ pool = {}
  /\ pool' = IF holds[h] >= onchain THEN pool \cup {holds[h]} ELSE pool
  /\ UNCHANGED <<length, lost, faults>>

\* The node takes a number that is not executed, and not pending.
SubmitTransaction(h) ==
  /\ Finish(h)
  /\ pool' = IF holds[h] >= onchain THEN pool \cup {holds[h]} ELSE pool
  /\ UNCHANGED <<length, lost, faults>>

\* Mutant: the worker leaves its loop.
WorkerLeaves(h) ==
  /\ Fault
  /\ holds[h] # None /\ holds' = [holds EXCEPT ![h] = None]
  /\ done' = done \cup {holds[h]} /\ lost' = lost \cup {holds[h]}
  /\ made' = made \ {h} /\ cmap' = cmap
  /\ UNCHANGED <<onchain, pool, number, length, monitor, first, jobs>>

\* The gas price cannot be had, the transaction not built or not submitted:
\* the number is not given back.
SubmitFails(h) ==
  /\ Finish(h)
  /\ Fault
  /\ lost' = lost \cup {holds[h]}
  /\ UNCHANGED <<pool, length>>

-----------------------------------------------------------------------------
(***************************************************************************)
(* Starcoin, and the operating system.                                     *)
(***************************************************************************)
ChainRuns ==
  /\ onchain \in pool
  /\ pool' = pool \ {onchain} /\ onchain' = onchain + 1
  /\ UNCHANGED <<number, cmap, made, length, holds, monitor, history, jobs,
                 faults>>

\* Also what a concurrent use of the map may do.
Crash ==
  /\ Fault
  /\ number' = None
  /\ cmap' = [r \in Router |-> None] /\ made' = {}
  /\ length' = [c \in Chan |-> 0] /\ holds' = [h \in Holder |-> None]
  /\ monitor' = [m \in Monitor |-> Idle]
  /\ first' = 0 /\ done' = {} /\ lost' = {}
  /\ UNCHANGED <<node, jobs>>

Submission(h) == SubmitTransaction(h) \/ SubmitFails(h)

WorkerStep(c) == SendTxToStarcoin(c) \/ Submission(c)

KeeperStep(m) == ChangeBookKeeper(m) \/ Submission(m)

Next ==
  \/ \E m \in Monitor : \/ \E r \in Router : GetRouter(m, r)
                        \/ MakeChan(m) \/ SendJob(m)
  \/ \E c \in Chan : WorkerStep(c)
  \/ \E m \in Keepers : KeeperStep(m)
  \/ ChainRuns
  \/ Crash

(***************************************************************************)
(* The goroutines run, senders that wait at a channel are served in order  *)
(* (as Go does), and Starcoin executes what it can.  Calls need not fail,  *)
(* and no job need come.                                                   *)
(***************************************************************************)
Spec ==
  /\ Init /\ [][Next]_vars
  /\ \A m \in Monitor : WF_vars(MakeChan(m)) /\ SF_vars(SendJob(m))
  /\ \A c \in Chan : WF_vars(WorkerStep(c))
  /\ \A m \in Keepers : WF_vars(Submission(m))
  /\ WF_vars(ChainRuns)

-----------------------------------------------------------------------------
(***************************************************************************)
(* Properties.                                                             *)
(***************************************************************************)
Held(n) == \E h \in Holder : holds[h] = n

(* GetAccountSeqNum gives no number twice while the process lives, though  *)
(* the workers of all routers and changeBookKeeper ask for them at the     *)
(* same time and a lost map entry leaves a router with two workers.        *)
Unique ==
  /\ \A g, h \in Holder : holds[g] # None /\ holds[g] = holds[h] => g = h
  /\ \A n \in done : ~Held(n)

(* Every number the SeqNumManager has counted is in somebody's hands, has  *)
(* reached Starcoin, or is one whose call failed (nobody returns it):      *)
(* there is no other gap that stops the account.                           *)
NoOtherGap ==
  number # None =>
    \A n \in first..(number - 1) :
      Held(n) \/ n < onchain \/ n \in pool \/ n \in lost

(* What is submitted is executed, unless a smaller number is missing that  *)
(* nobody has.                                                             *)
Missing(n) == \E k \in onchain..(n - 1) : k \notin pool /\ ~Held(k)

Flows == \A n \in 0..(First + MaxJobs) : n \in pool ~> onchain > n \/ Missing(n)

(* A job that waits in a channel, and a monitor that waits at a full one,  *)
(* is served: a worker outlives the failures of its jobs, even one whose   *)
(* channel was replaced in the map.                                        *)
Served ==
  /\ \A c \in Chan : length[c] > 0 ~> length[c] = 0
  /\ \A m \in Monitor : monitor[m].pc = "send" ~> monitor[m].pc = "idle"
=============================================================================
