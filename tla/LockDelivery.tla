---------------------------- MODULE LockDelivery ----------------------------
(***************************************************************************)
(* What the Starcoin -> Poly relay promises, without its goroutines, its   *)
(* tables, header4sync and its retries.  Poly learns only headers Starcoin *)
(* produced, each after the ones below it and after the lock events of its *)
(* block are recorded, if the block is on Starcoin's chain then; its main  *)
(* chain never gets lighter.  An event is recorded for good, submitted     *)
(* only once recorded, and imported at most once, when its block is on     *)
(* Poly's main chain.                                                      *)
(***************************************************************************)
EXTENDS Naturals

CONSTANTS
  Event,    \* the lock events
  Block,    \* the headers of Starcoin blocks
  BlockOf,  \* the block of each event
  Below,    \* each block and those it is built on
  Weight,   \* the work behind each block
  First     \* the block Poly is at in the beginning

VARIABLES
  produced, \* the blocks Starcoin has produced
  main,     \* those on its main chain
  headers,  \* the blocks Poly knows
  best,     \* the one it is at
  recorded, submitted, imported  \* the events

chains == <<produced, main, headers, best>>
events == <<recorded, submitted, imported>>

Init ==
  /\ headers = Below[First] /\ produced = headers /\ main = headers
  /\ best = First
  /\ recorded = {} /\ submitted = {} /\ imported = {}

\* Starcoin produces blocks and chooses among them.  Poly has not heard of the
\* blocks that join the main chain.
Produce ==
  /\ produced \subseteq produced' /\ main' \subseteq produced'
  /\ (main' \ main) \cap headers = {}
  /\ UNCHANGED <<headers, best, events>>

Record(e) ==
  /\ BlockOf[e] \in produced
  /\ recorded' = recorded \cup {e}
  /\ UNCHANGED <<chains, submitted, imported>>

SyncHeaders ==
  /\ headers \subseteq headers' /\ headers' \subseteq produced
  /\ \A k \in headers' : Below[k] \subseteq headers'
  /\ \A e \in Event \ recorded : BlockOf[e] \notin (headers' \ headers) \cap main
  /\ best' \in headers'
  /\ \A k \in {best} \cup (headers' \ headers) : Weight[k] <= Weight[best']
  /\ UNCHANGED <<produced, main, events>>

Submit(e) ==
  /\ e \in recorded
  /\ submitted' = submitted \cup {e}
  /\ UNCHANGED <<chains, recorded, imported>>

Import(e) ==
  /\ e \in submitted \ imported
  /\ BlockOf[e] \in Below[best]
  /\ imported' = imported \cup {e}
  /\ UNCHANGED <<chains, recorded, submitted>>

Next ==
  \/ Produce \/ SyncHeaders
  \/ \E e \in Event : Record(e) \/ Submit(e) \/ Import(e)

Spec == Init /\ [][Next]_<<chains, events>>
=============================================================================
