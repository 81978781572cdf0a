-------------------------- MODULE MCPolyTxRemoval --------------------------
(* The instance of PolyTxRemoval that TLC checks. *)
EXTENDS PolyTxRemoval

CONSTANTS a, b

\* Bound: only one of the two transactions is sent more than once.
OneResent == row[b].retry <= 1 /\ removed[b].retry <= 1
=============================================================================
