---------------------------- MODULE MCGasSubsidy ----------------------------
(* The instance of GasSubsidy that TLC checks. *)
EXTENDS GasSubsidy

CONSTANTS x, y, z, big, Ann

\* Three transactions to the same receiver, and one whose amount is too big.
PayeeOfAll == [t \in Transfer |-> Ann]

\* Bounds: that one is processed first, the third one after the first is done.
BigIsFirst == due # {} => big \in due

ThirdIsLast == z \in due => row[x].status = "D" /\ row[y].status # "none"
=============================================================================
