\* BoltDB; Starcoin abandons the block of one event; a call and the process fail
\* once.
CONSTANTS
  a = a
  b = b
  Event = {a, b}
  Start = 5
  Top = 9
  ForkAt = 6
  Useful = 1
  ProofUseful = 3
  Confirmations = 1
  HeadersPerBatch = 1
  Upsert = TRUE
  MaxImports = 2
  MaxFailures = 0
  MaxErrors = 1
  MaxCrashes = 1
  BlockOf <- BothForks
SPECIFICATION FairSpec
PROPERTY Relayed
PROPERTY PolyFollows
PROPERTY ImplementsLockDelivery
\* Starcoin ends at Top, and the relayer is done with it at last.
CHECK_DEADLOCK FALSE
