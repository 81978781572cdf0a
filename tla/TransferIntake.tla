--------------------------- MODULE TransferIntake ---------------------------
(***************************************************************************)
(* What the scan of the Poly blocks promises, without its goroutines, the  *)
(* heights and epochs it keeps, its restarts and failures: a transfer is   *)
(* put off, committed to the queue for Starcoin or skipped; it is          *)
(* committed once and for good, only when its account accepts the token    *)
(* and, if fees are checked, only after it was put off; what is put off    *)
(* stays so until it is committed; and a block counts as done only when    *)
(* nothing of it is left.                                                  *)
(***************************************************************************)
CONSTANTS
  Event,    \* the transfers
  Height,
  Block,    \* the transfers of each block
  CheckFee

VARIABLES
  accepting,               \* the transfers whose account accepts the token
  off, committed, skipped, \* what became of the transfers
  done                     \* the heights that are done with

transfers == <<off, committed, skipped>>

Left(h) == {Block[h][i] : i \in DOMAIN Block[h]} \ (off \cup committed \cup skipped)

Init ==
  /\ accepting \subseteq Event
  /\ off = {} /\ committed = {} /\ skipped = {}
  /\ done \subseteq Height /\ \A h \in done : Left(h) = {}

Accept(e) ==
  /\ accepting' = accepting \cup {e}
  /\ UNCHANGED <<transfers, done>>

PutOff(e) ==
  /\ e \notin committed
  /\ off' = off \cup {e}
  /\ UNCHANGED <<accepting, committed, skipped, done>>

Commit(e) ==
  /\ e \in accepting /\ (CheckFee => e \in off)
  /\ e \notin committed
  /\ committed' = committed \cup {e} /\ off' = off \ {e}
  /\ UNCHANGED <<accepting, skipped, done>>

\* Without a proof: it may be found again, and have one then.
Skip(e) ==
  /\ skipped' = skipped \cup {e}
  /\ UNCHANGED <<accepting, off, committed, done>>

\* A restart may do some of the blocks again.
Proceed ==
  /\ done' \subseteq Height /\ \A h \in done' \ done : Left(h) = {}
  /\ UNCHANGED <<accepting, transfers>>

Next ==
  \/ \E e \in Event : Accept(e) \/ PutOff(e) \/ Commit(e) \/ Skip(e)
  \/ Proceed

Spec == Init /\ [][Next]_<<accepting, transfers, done>>
=============================================================================
