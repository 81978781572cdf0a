---------------------------- MODULE MCLockRelay ----------------------------
(* The instances of LockRelay that TLC checks. *)
EXTENDS LockRelay

CONSTANTS a, b

\* One event in each of the first two blocks.
EarlyBlocks ==
  [e \in Event |-> [height |-> IF e = a THEN Start + 1 ELSE Start + 2, fork |-> 0]]

\* Two events in one block.
OneBlock == [e \in Event |-> [height |-> Start + 2, fork |-> 0]]

\* An event in a block that Starcoin abandons and one in the block instead.
BothForks == [e \in Event |-> [height |-> ForkAt, fork |-> IF e = a THEN 0 ELSE 1]]
=============================================================================
