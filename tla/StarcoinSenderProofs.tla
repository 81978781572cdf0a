------------------------ MODULE StarcoinSenderProofs ------------------------
(***************************************************************************)
(* The sequence numbers of a sender: for any monitors, routers, channel    *)
(* lengths, failed calls and restarts, and whatever number the account     *)
(* begins with.                                                            *)
(***************************************************************************)
EXTENDS StarcoinSender, TLAPS

\* A monitor that makes a channel has a router, one that sends a channel.
Routed ==
  \A m \in Monitor : /\ monitor[m].pc = "make" => monitor[m].router \in Router
                     /\ monitor[m].pc = "send" => monitor[m].chan \in made

\* The numbers counted since the start are the ones in somebody's hands and
\* the ones the holders are done with ...
Counted(n) == number # None /\ first <= n /\ n < number

Accounted ==
  /\ number # None => first <= number
  /\ \A n \in Nat : Counted(n) <=> Held(n) \/ n \in done

\* ... and what they are done with has reached Starcoin or is lost.
Delivered == \A n \in done : n < onchain \/ n \in pool \/ n \in lost

IndInv == TypeOK /\ Routed /\ Unique /\ Accounted /\ Delivered

LEMMA Constants ==
  /\ ChanLen \in Nat /\ ChanLen # 0
  /\ First \in Nat /\ MaxJobs \in Nat /\ MaxFaults \in Nat
  /\ None \notin Nat /\ None \notin Chan /\ Chan \subseteq Holder
  /\ Keepers \subseteq Monitor /\ Keepers \subseteq Holder
BY SenderConstants DEF SenderConstants, Chan, Holder

LEMMA FaultBound ==
  ASSUME faults \in 0..MaxFaults, faults' = faults \/ Fault
  PROVE  faults' \in 0..MaxFaults
BY Constants DEF Fault

\* What the numbers depend on.
LEMMA NumbersKept ==
  ASSUME Unique, Accounted, Delivered,
         UNCHANGED <<onchain, pool, number, holds, first, done, lost>>
  PROVE  Unique' /\ Accounted' /\ Delivered'
BY DEF Unique, Accounted, Delivered, Counted, Held

-----------------------------------------------------------------------------
(***************************************************************************)
(* The monitors.                                                           *)
(***************************************************************************)
Where == [pc: {"idle", "make", "send"}, router: Router \cup {None},
          chan: made \cup {None}]

LEMMA GetRouterStep ==
  ASSUME IndInv, NEW m \in Monitor, NEW r \in Router, GetRouter(m, r)
  PROVE  IndInv'
<1> DEFINE w == IF cmap[r] = None
                THEN [pc |-> "make", router |-> r, chan |-> None]
                ELSE [pc |-> "send", router |-> r, chan |-> cmap[r]]
<1>1. monitor' = [monitor EXCEPT ![m] = w] /\ jobs < MaxJobs /\ jobs' = jobs + 1
  BY DEF GetRouter
<1>2. UNCHANGED <<onchain, pool, number, cmap, made, length, holds, first, done,
                  lost, faults>>
  BY DEF GetRouter, node, history
<1>3. cmap[r] \in made \cup {None} /\ monitor \in [Monitor -> Where]
  BY DEF IndInv, TypeOK, Where
<1>4. /\ w \in Where
      /\ w.pc = "make" => w.router \in Router
      /\ w.pc = "send" => w.chan \in made
  <2>1. CASE cmap[r] = None
    BY <2>1 DEF Where
  <2>2. CASE cmap[r] # None
    BY <1>3, <2>2 DEF Where
  <2> QED
    BY <2>1, <2>2
<1> HIDE DEF w
<1>5. /\ monitor' \in [Monitor -> Where]
      /\ monitor'[m] = w /\ \A k \in Monitor : k # m => monitor'[k] = monitor[k]
  BY <1>1, <1>3, <1>4
<1>6. jobs' \in 0..MaxJobs
  BY <1>1, Constants DEF IndInv, TypeOK
<1>7. TypeOK'
  BY <1>2, <1>5, <1>6 DEF IndInv, TypeOK, Where
<1>8. Routed'
  BY <1>2, <1>4, <1>5 DEF IndInv, Routed
<1> QED
  BY <1>2, <1>7, <1>8, NumbersKept DEF IndInv

\* A channel that is replaced in the map is still there.
LEMMA MakeChanStep ==
  ASSUME IndInv, NEW m \in Monitor, MakeChan(m)
  PROVE  IndInv'
<1> DEFINE r == monitor[m].router
           c == <<r, m>>
           w == [pc |-> "send", router |-> r, chan |-> c]
<1>1. /\ made' = made \cup {c} /\ cmap' = [cmap EXCEPT ![r] = c]
      /\ monitor' = [monitor EXCEPT ![m] = w]
      /\ UNCHANGED <<onchain, pool, number, length, holds, first, done, lost, jobs, faults>>
  BY DEF MakeChan, node, history
<1>2. r \in Router /\ c \in Chan
  BY DEF MakeChan, IndInv, Routed, Chan
<1>3. cmap \in [Router -> made \cup {None}] /\ monitor \in [Monitor -> Where]
  BY DEF IndInv, TypeOK, Where
<1>4. w \in Where' /\ w.pc = "send" /\ w.chan \in made'
  BY <1>1, <1>2 DEF Where
<1>5. Where \subseteq Where'
  BY <1>1 DEF Where
<1>6. cmap' \in [Router -> made' \cup {None}]
  BY <1>1, <1>2, <1>3
<1> HIDE DEF r, c, w
<1>7. /\ monitor' \in [Monitor -> Where']
      /\ monitor'[m] = w /\ \A k \in Monitor : k # m => monitor'[k] = monitor[k]
  BY <1>1, <1>3, <1>4, <1>5
<1>8. TypeOK'
  BY <1>1, <1>2, <1>6, <1>7 DEF IndInv, TypeOK, Where
<1>9. Routed'
  BY <1>1, <1>4, <1>7 DEF IndInv, Routed
<1> QED
  BY <1>1, <1>8, <1>9, NumbersKept DEF IndInv

LEMMA SendJobStep ==
  ASSUME IndInv, NEW m \in Monitor, SendJob(m)
  PROVE  IndInv'
<1> DEFINE c == monitor[m].chan
<1>1. /\ length[c] < ChanLen /\ length' = [length EXCEPT ![c] = length[c] + 1]
      /\ monitor' = [monitor EXCEPT ![m] = Idle]
      /\ UNCHANGED <<onchain, pool, number, cmap, made, holds, first, done, lost, jobs, faults>>
  BY DEF SendJob, node, history
<1>2. c \in Chan
  BY DEF SendJob, IndInv, Routed, TypeOK
<1> HIDE DEF c
<1>3. length' \in [Chan -> 0..ChanLen]
  <2>1. length[c] \in 0..ChanLen
    BY <1>2 DEF IndInv, TypeOK
  <2>2. length[c] + 1 \in 0..ChanLen
    BY <1>1, <2>1, Constants
  <2> QED
    BY <1>1, <2>2 DEF IndInv, TypeOK
<1>4. Idle \in Where /\ Idle.pc = "idle"
  BY DEF Idle, Where
<1>5. monitor \in [Monitor -> Where]
  BY DEF IndInv, TypeOK, Where
<1>6. /\ monitor' \in [Monitor -> Where]
      /\ monitor'[m].pc = "idle"
      /\ \A k \in Monitor : k # m => monitor'[k] = monitor[k]
  BY <1>1, <1>4, <1>5
<1>7. TypeOK'
  BY <1>1, <1>3, <1>6 DEF IndInv, TypeOK, Where
<1>8. Routed'
  BY <1>1, <1>6 DEF IndInv, Routed
<1> QED
  BY <1>1, <1>7, <1>8, NumbersKept DEF IndInv

-----------------------------------------------------------------------------
(***************************************************************************)
(* The numbers.                                                            *)
(***************************************************************************)
LEMMA Shorter ==
  ASSUME NEW l \in 0..ChanLen, l > 0
  PROVE  l - 1 \in 0..ChanLen
BY Constants

\* The number that is taken has not been counted, and is all that is counted
\* now.
LEMMA NumberTaken ==
  ASSUME IndInv, NEW h \in Holder, holds[h] = None, GetAccountSeqNum(h),
         UNCHANGED <<onchain, pool, done, lost>>
  PROVE  /\ holds' \in [Holder -> Nat \cup {None}]
         /\ number' \in Nat /\ first' \in Nat /\ faults' \in 0..MaxFaults
         /\ Unique' /\ Accounted' /\ Delivered'
<1>1. /\ onchain \in Nat /\ number \in Nat \cup {None} /\ first \in Nat
      /\ holds \in [Holder -> Nat \cup {None}] /\ done \in SUBSET Nat
  BY DEF IndInv, TypeOK
<1>2. PICK n \in Nat : /\ holds' = [holds EXCEPT ![h] = n] /\ number' = n + 1
                       /\ \/ n = number /\ first' = first
                          \/ number = None /\ first' = n
  BY <1>1 DEF GetAccountSeqNum
<1>3. faults' \in 0..MaxFaults
  <2>1. faults' = faults \/ Fault
    BY DEF GetAccountSeqNum
  <2> QED
    BY <2>1, FaultBound DEF IndInv, TypeOK
<1>4. holds' \in [Holder -> Nat \cup {None}] /\ number' \in Nat /\ first' \in Nat
  BY <1>1, <1>2
<1>5. n # None /\ number' # None
  BY <1>2, <1>4, Constants
<1>6. ~Counted(n)
  BY <1>2, <1>5 DEF Counted
<1>7. ~Held(n) /\ n \notin done
  BY <1>6 DEF IndInv, Accounted
<1>8. holds'[h] = n /\ \A g \in Holder : g # h => holds'[g] = holds[g]
  BY <1>1, <1>2
<1>9. \A k \in Nat : Held(k)' <=> k = n \/ Held(k)
  BY <1>5, <1>8, Constants DEF Held
<1>10. \A k \in Nat : Counted(k)' <=> k = n \/ Counted(k)
  <2>1. CASE n = number /\ first' = first
    <3>1. first <= n
      BY <1>5, <2>1 DEF IndInv, Accounted
    <3> QED
      BY <1>1, <1>2, <1>5, <2>1, <3>1 DEF Counted
  <2>2. CASE number = None /\ first' = n
    BY <1>2, <1>5, <2>2 DEF Counted
  <2> QED
    BY <1>2, <2>1, <2>2
<1>11. Accounted'
  <2>1. first' <= number'
    BY <1>1, <1>2, <1>5 DEF IndInv, Accounted
  <2> QED
    BY <1>9, <1>10, <2>1 DEF IndInv, Accounted
<1>12. Delivered'
  BY DEF IndInv, Delivered
<1>13. Unique'
  <2>1. \A g \in Holder : g # h => holds'[g] # n
    BY <1>7, <1>8 DEF Held
  <2>2. \A k \in done : k \in Nat /\ k # n /\ ~Held(k)
    BY <1>1, <1>7 DEF IndInv, Unique
  <2>3. \A k \in done' : ~Held(k)'
    BY <1>9, <2>2
  <2>4. \A f, g \in Holder : holds'[f] # None /\ holds'[f] = holds'[g] => f = g
    BY <1>8, <2>1 DEF IndInv, Unique
  <2> QED
    BY <2>3, <2>4 DEF Unique
<1> QED
  BY <1>3, <1>4, <1>11, <1>12, <1>13

LEMMA SendTxToStarcoinStep ==
  ASSUME IndInv, NEW c \in Chan, SendTxToStarcoin(c)
  PROVE  IndInv'
<1>1. /\ holds[c] = None /\ length[c] > 0 /\ GetAccountSeqNum(c)
      /\ length' = [length EXCEPT ![c] = length[c] - 1]
      /\ UNCHANGED <<onchain, pool, cmap, made, monitor, done, lost, jobs>>
  BY DEF SendTxToStarcoin, node
<1>2. length' \in [Chan -> 0..ChanLen]
  <2>1. length \in [Chan -> 0..ChanLen] /\ length[c] \in 0..ChanLen
    BY DEF IndInv, TypeOK
  <2> QED
    BY <1>1, <2>1, Shorter
<1>3. c \in Holder
  BY Constants
<1>4. /\ holds' \in [Holder -> Nat \cup {None}]
      /\ number' \in Nat /\ first' \in Nat /\ faults' \in 0..MaxFaults
      /\ Unique' /\ Accounted' /\ Delivered'
  BY <1>1, <1>3, NumberTaken
<1>5. TypeOK'
  BY <1>1, <1>2, <1>4 DEF IndInv, TypeOK
<1>6. Routed'
  BY <1>1 DEF IndInv, Routed
<1> QED
  BY <1>4, <1>5, <1>6 DEF IndInv

LEMMA ChangeBookKeeperStep ==
  ASSUME IndInv, NEW m \in Keepers, ChangeBookKeeper(m)
  PROVE  IndInv'
<1>1. /\ holds[m] = None /\ GetAccountSeqNum(m)
      /\ jobs < MaxJobs /\ jobs' = jobs + 1
      /\ UNCHANGED <<onchain, pool, cmap, made, length, monitor, done, lost>>
  BY DEF ChangeBookKeeper, Free, node
<1>2. jobs' \in 0..MaxJobs
  BY <1>1, Constants DEF IndInv, TypeOK
<1>3. m \in Holder
  BY Constants
<1>4. /\ holds' \in [Holder -> Nat \cup {None}]
      /\ number' \in Nat /\ first' \in Nat /\ faults' \in 0..MaxFaults
      /\ Unique' /\ Accounted' /\ Delivered'
  BY <1>1, <1>3, NumberTaken
<1>5. TypeOK'
  BY <1>1, <1>2, <1>4 DEF IndInv, TypeOK
<1>6. Routed'
  BY <1>1 DEF IndInv, Routed
<1> QED
  BY <1>4, <1>5, <1>6 DEF IndInv

\* A holder lets go of its number, which is then done with.
LEMMA FinishStep ==
  ASSUME IndInv, NEW h \in Holder, Finish(h), UNCHANGED length,
         faults' \in 0..MaxFaults, pool' \in SUBSET Nat, lost' \in SUBSET Nat,
         pool \subseteq pool', lost \subseteq lost',
         holds[h] < onchain \/ holds[h] \in pool' \/ holds[h] \in lost'
  PROVE  IndInv'
<1> DEFINE n == holds[h]
<1>1. /\ n # None /\ holds' = [holds EXCEPT ![h] = None] /\ done' = done \cup {n}
      /\ UNCHANGED <<onchain, number, cmap, made, monitor, first, jobs>>
  BY DEF Finish
<1>2. /\ holds \in [Holder -> Nat \cup {None}] /\ done \in SUBSET Nat
      /\ n \in Nat
  BY <1>1 DEF IndInv, TypeOK
<1>3. n < onchain \/ n \in pool' \/ n \in lost'
  OBVIOUS
<1>4. \A g \in Holder : g # h => holds[g] # n
  BY <1>1 DEF IndInv, Unique
<1>5. Held(n)
  BY DEF Held
<1> HIDE DEF n
<1>6. holds'[h] = None /\ \A g \in Holder : g # h => holds'[g] = holds[g]
  BY <1>1, <1>2
<1>7. TypeOK'
  <2>1. holds' \in [Holder -> Nat \cup {None}]
    BY <1>1, <1>2
  <2>2. done' \in SUBSET Nat
    BY <1>1, <1>2
  <2> QED
    BY <1>1, <2>1, <2>2 DEF IndInv, TypeOK
<1>8. Routed'
  BY <1>1 DEF IndInv, Routed
<1>9. \A k \in Nat : k # None
  BY Constants
<1>10. \A k \in Nat : Held(k)' <=> Held(k) /\ k # n
  <2>1. ASSUME NEW k \in Nat, Held(k)'
        PROVE  Held(k) /\ k # n
    BY <1>4, <1>6, <1>9, <2>1 DEF Held
  <2>2. ASSUME NEW k \in Nat, Held(k), k # n
        PROVE  Held(k)'
    <3>1. PICK g \in Holder : holds[g] = k
      BY <2>2 DEF Held
    <3>2. g # h
      BY <2>2, <3>1 DEF n
    <3> QED
      BY <1>6, <3>1, <3>2 DEF Held
  <2> QED
    BY <2>1, <2>2
<1>11. Accounted'
  BY <1>1, <1>5, <1>10 DEF IndInv, Accounted, Counted
<1>12. Delivered'
  BY <1>1, <1>3 DEF IndInv, Delivered
<1>13. Unique'
  <2>1. \A f, g \in Holder : holds'[f] # None /\ holds'[f] = holds'[g] => f = g
    BY <1>6 DEF IndInv, Unique
  <2>2. \A k \in done' : ~Held(k)'
    BY <1>1, <1>2, <1>10 DEF IndInv, Unique
  <2> QED
    BY <2>1, <2>2 DEF Unique
<1> QED
  BY <1>7, <1>8, <1>11, <1>12, <1>13 DEF IndInv

LEMMA SubmitTransactionStep ==
  ASSUME IndInv, NEW h \in Holder, SubmitTransaction(h)
  PROVE  IndInv'
<1>1. holds[h] \in Nat /\ onchain \in Nat
  BY DEF SubmitTransaction, Finish, IndInv, TypeOK
<1>2. /\ Finish(h) /\ UNCHANGED <<length, lost, faults>>
      /\ pool' = IF holds[h] >= onchain THEN pool \cup {holds[h]} ELSE pool
  BY DEF SubmitTransaction
<1>3. pool' \in SUBSET Nat /\ pool \subseteq pool'
  BY <1>1, <1>2 DEF IndInv, TypeOK
<1>4. holds[h] < onchain \/ holds[h] \in pool'
  BY <1>1, <1>2
<1> QED
  BY <1>2, <1>3, <1>4, FinishStep DEF IndInv, TypeOK

LEMMA SubmitFailsStep ==
  ASSUME IndInv, NEW h \in Holder, SubmitFails(h)
  PROVE  IndInv'
<1>1. holds[h] \in Nat
  BY DEF SubmitFails, Finish, IndInv, TypeOK
<1>2. /\ Finish(h) /\ UNCHANGED <<pool, length>> /\ lost' = lost \cup {holds[h]}
  BY DEF SubmitFails
<1>3. faults' \in 0..MaxFaults
  BY FaultBound DEF SubmitFails, IndInv, TypeOK
<1> QED
  BY <1>1, <1>2, <1>3, FinishStep DEF IndInv, TypeOK

-----------------------------------------------------------------------------
(***************************************************************************)
(* Starcoin, and the operating system.                                     *)
(***************************************************************************)
LEMMA ChainRunsStep ==
  ASSUME IndInv, ChainRuns
  PROVE  IndInv'
<1>1. /\ pool' = pool \ {onchain} /\ onchain' = onchain + 1 /\ onchain \in Nat
      /\ UNCHANGED <<number, cmap, made, length, holds, monitor, first, done, lost,
                     jobs, faults>>
  BY DEF ChainRuns, history, IndInv, TypeOK
<1>2. TypeOK'
  BY <1>1 DEF IndInv, TypeOK
<1>3. Routed' /\ Unique' /\ Accounted'
  BY <1>1 DEF IndInv, Routed, Unique, Accounted, Counted, Held
<1>4. Delivered'
  BY <1>1 DEF IndInv, TypeOK, Delivered
<1> QED
  BY <1>2, <1>3, <1>4 DEF IndInv

LEMMA Nothing ==
  ASSUME number = None, done = {}, \A h \in Holder : holds[h] = None,
         \A m \in Monitor : monitor[m] = Idle
  PROVE  Routed /\ Unique /\ Accounted /\ Delivered
<1>1. Routed
  <2>1. Idle.pc = "idle"
    BY DEF Idle
  <2>2. \A m \in Monitor : monitor[m].pc = "idle"
    BY <2>1
  <2> QED
    BY <2>2 DEF Routed
<1>2. Unique /\ Delivered
  BY DEF Unique, Delivered
<1>3. Accounted
  BY Constants DEF Accounted, Counted, Held
<1> QED
  BY <1>1, <1>2, <1>3

LEMMA CrashStep ==
  ASSUME IndInv, Crash
  PROVE  IndInv'
<1>1. /\ number' = None /\ made' = {} /\ cmap' = [r \in Router |-> None]
      /\ length' = [c \in Chan |-> 0] /\ holds' = [h \in Holder |-> None]
      /\ monitor' = [m \in Monitor |-> Idle]
      /\ first' = 0 /\ done' = {} /\ lost' = {}
      /\ UNCHANGED <<onchain, pool, jobs>>
  BY DEF Crash, node
<1>2. faults' \in 0..MaxFaults
  BY FaultBound DEF Crash, IndInv, TypeOK
<1>3. TypeOK'
  BY <1>1, <1>2, Constants DEF IndInv, TypeOK, Idle
<1>4. Routed'
  BY <1>1 DEF Routed, Idle
<1>5. Unique' /\ Delivered'
  BY <1>1 DEF Unique, Delivered
<1>6. Accounted'
  BY <1>1, Constants DEF Accounted, Counted, Held
<1> QED
  BY <1>3, <1>4, <1>5, <1>6 DEF IndInv

LEMMA InitInv == Init => IndInv
<1> SUFFICES ASSUME Init PROVE IndInv
  OBVIOUS
<1>1. TypeOK
  BY Constants DEF Init, TypeOK, Idle
<1>2. Routed /\ Unique /\ Accounted /\ Delivered
  BY Nothing DEF Init
<1> QED
  BY <1>1, <1>2 DEF IndInv

LEMMA Step == IndInv /\ [Next]_vars => IndInv'
<1> SUFFICES ASSUME IndInv, [Next]_vars PROVE IndInv'
  OBVIOUS
<1>1. ASSUME NEW m \in Monitor,
             (\E r \in Router : GetRouter(m, r)) \/ MakeChan(m) \/ SendJob(m)
      PROVE  IndInv'
  BY <1>1, GetRouterStep, MakeChanStep, SendJobStep
<1>2. ASSUME NEW c \in Chan, WorkerStep(c)
      PROVE  IndInv'
  BY <1>2, SendTxToStarcoinStep, SubmitTransactionStep, SubmitFailsStep, Constants
     DEF WorkerStep, Submission
<1>3. ASSUME NEW m \in Keepers, KeeperStep(m)
      PROVE  IndInv'
  BY <1>3, ChangeBookKeeperStep, SubmitTransactionStep, SubmitFailsStep, Constants
     DEF KeeperStep, Submission
<1>4. CASE UNCHANGED vars
  <2>1. UNCHANGED <<onchain, pool, number, cmap, made, length, holds, monitor,
                    first, done, lost, jobs, faults>>
    BY <1>4 DEF vars
  <2>2. TypeOK' /\ Routed'
    BY <2>1 DEF IndInv, TypeOK, Routed
  <2> QED
    BY <2>1, <2>2, NumbersKept DEF IndInv
<1> QED
  BY <1>1, <1>2, <1>3, <1>4, ChainRunsStep, CrashStep DEF Next

LEMMA Invariant == Spec => []IndInv
<1>1. Init => IndInv
  BY InitInv
<1>2. IndInv /\ [Next]_vars => IndInv'
  BY Step
<1> QED
  BY <1>1, <1>2, PTL DEF Spec

(* Channels, numbers and monitors keep their types.                        *)
THEOREM SenderTypes == Spec => []TypeOK
<1>1. IndInv => TypeOK
  BY DEF IndInv
<1> QED
  BY <1>1, Invariant, PTL

(* No number is given to two transactions of one life of the process.      *)
THEOREM NumbersUnique == Spec => []Unique
<1>1. IndInv => Unique
  BY DEF IndInv
<1> QED
  BY <1>1, Invariant, PTL

(* Only a failed call leaves a gap in the numbers.                         *)
THEOREM NumbersComplete == Spec => []NoOtherGap
<1>1. IndInv => NoOtherGap
  <2> SUFFICES ASSUME IndInv, number # None, NEW n \in first..(number - 1)
               PROVE  Held(n) \/ n < onchain \/ n \in pool \/ n \in lost
    BY DEF NoOtherGap
  <2>1. first \in Nat /\ number \in Nat
    BY DEF IndInv, TypeOK
  <2>2. n \in Nat /\ first <= n /\ n < number
    BY <2>1
  <2>3. Counted(n)
    BY <2>2 DEF Counted
  <2> QED
    BY <2>2, <2>3 DEF IndInv, Accounted, Delivered
<1> QED
  BY <1>1, Invariant, PTL
=============================================================================
