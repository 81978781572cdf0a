-------------------------- MODULE MCStarcoinSender --------------------------
(* The instance of StarcoinSender that TLC checks. *)
EXTENDS StarcoinSender

CONSTANTS MonitorChain, MonitorFailedPolyTx, r, s
=============================================================================
