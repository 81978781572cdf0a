--------------------------- MODULE SubsidyOrders ---------------------------
(***************************************************************************)
(* What the gas subsidies promise, without the table, its states, the      *)
(* sequence numbers and the clock: a transaction is granted a subsidy or   *)
(* refused one, once; payment orders for it are issued one at a time, the  *)
(* next only after the last was given up unpaid; and it is done, for good, *)
(* only when the order it waits for was paid, or when it was refused.      *)
(***************************************************************************)
EXTENDS Naturals, FiniteSets

CONSTANTS Transfer, Payee, Cap, MaxRetry

VARIABLES
  granted, refused,  \* the transfers decided upon
  orders,            \* the number of orders issued for each
  live,              \* those whose last order is waited for
  paid,              \* the orders that were executed
  done               \* the transfers that are over

Init ==
  /\ granted = {} /\ refused = {}
  /\ orders = [t \in Transfer |-> 0]
  /\ live = {} /\ paid = {} /\ done = {}

Grant(t) ==
  /\ t \notin granted \cup refused
  /\ Cardinality({u \in granted : Payee[u] = Payee[t]}) < Cap
  /\ granted' = granted \cup {t}
  /\ UNCHANGED <<refused, orders, live, paid, done>>

Refuse(t) ==
  /\ t \notin granted \cup refused
  /\ refused' = refused \cup {t}
  /\ UNCHANGED <<granted, orders, live, paid, done>>

Issue(t) ==
  /\ t \in granted \ (live \cup done)
  /\ orders[t] < MaxRetry
  /\ orders' = [orders EXCEPT ![t] = orders[t] + 1]
  /\ live' = live \cup {t}
  /\ UNCHANGED <<granted, refused, paid, done>>

\* An order that was given up may be executed all the same.
Pay(t, n) ==
  /\ n \in 1..orders[t]
  /\ <<t, n>> \notin paid
  /\ paid' = paid \cup {<<t, n>>}
  /\ UNCHANGED <<granted, refused, orders, live, done>>

GiveUp(t) ==
  /\ t \in live
  /\ <<t, orders[t]>> \notin paid
  /\ live' = live \ {t}
  /\ UNCHANGED <<granted, refused, orders, paid, done>>

Settle(t) ==
  /\ t \in refused \/ (t \in live /\ <<t, orders[t]>> \in paid)
  /\ done' = done \cup {t}
  /\ live' = live \ {t}
  /\ UNCHANGED <<granted, refused, orders, paid>>

Next ==
  \E t \in Transfer : \/ Grant(t) \/ Refuse(t) \/ Issue(t) \/ GiveUp(t) \/ Settle(t)
                      \/ \E n \in 1..MaxRetry : Pay(t, n)

Spec == Init /\ [][Next]_<<granted, refused, orders, live, paid, done>>
=============================================================================
