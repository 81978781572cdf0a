----------------------------- MODULE MCPolyScan -----------------------------
(* The instances of PolyScan that TLC checks. *)
EXTENDS PolyScan

CONSTANTS a, b

\* Two transfers in the block after the first.
OneBlock == [h \in 0..Top |-> IF h = Start + 1 THEN <<a, b>> ELSE <<>>]
=============================================================================
