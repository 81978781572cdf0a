-------------------------- MODULE InOrderDelivery --------------------------
(***************************************************************************)
(* What the Poly -> Starcoin relay promises, without its goroutines, its   *)
(* database and its retries: transactions get positions 1, 2, 3, ... as    *)
(* they are accepted, each is executed at most once and only after all     *)
(* that precede it, and the relayer records as processed only transactions *)
(* that were executed, and for good.                                       *)
(***************************************************************************)
EXTENDS Naturals

CONSTANT Tx

VARIABLES pos,        \* the position of each transaction, 0 before it has one
          delivered,  \* the transactions executed on Starcoin
          processed   \* the transactions the relayer knows to be executed

Init ==
  /\ pos = [t \in Tx |-> 0]
  /\ delivered = {}
  /\ processed = {}

\* A transaction gets the position after the last one taken.
Accept(t) ==
  /\ pos[t] = 0
  /\ \E i \in {1} \cup {pos[u] + 1 : u \in Tx} :
       /\ \A u \in Tx : pos[u] < i
       /\ pos' = [pos EXCEPT ![t] = i]
  /\ UNCHANGED <<delivered, processed>>

Deliver(t) ==
  /\ pos[t] # 0
  /\ t \notin delivered
  /\ \A u \in Tx : pos[u] # 0 /\ pos[u] < pos[t] => u \in delivered
  /\ delivered' = delivered \cup {t}
  /\ UNCHANGED <<pos, processed>>

Record(t) ==
  /\ t \in delivered
  /\ processed' = processed \cup {t}
  /\ UNCHANGED <<pos, delivered>>

Next == \E t \in Tx : Accept(t) \/ Deliver(t) \/ Record(t)

Spec == Init /\ [][Next]_<<pos, delivered, processed>>
=============================================================================
