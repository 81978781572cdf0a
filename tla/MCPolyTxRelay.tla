--------------------------- MODULE MCPolyTxRelay ---------------------------
(* The instances of PolyTxRelay that TLC checks. *)
EXTENDS PolyTxRelay, TLC

CONSTANTS a, b, MonitorChain, MonitorDeposit

Symmetry == Permutations(Tx) \cup Permutations(Putter)

\* Bounds of the run with resends of two transactions: no saved transaction
\* is presented again, only one of the two is sent a second time, and the run
\* ends when both are processed.
NoRescan  == \A x \in puts : x.stage = "read" => ~Saved(x.tx)
OneResend == \A t, u \in Tx : t # u => row[t].retry + row[u].retry <= 3
Unsettled == \E t \in Tx : row[t].status # "D"
=============================================================================
