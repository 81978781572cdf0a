\* MySQL; events in two blocks; one crash.
CONSTANTS
  a = a
  b = b
  Event = {a, b}
  Start = 4
  Top = 9
  ForkAt = 0
  Useful = 1
  ProofUseful = 3
  Confirmations = 1
  HeadersPerBatch = 1
  Upsert = FALSE
  MaxImports = 2
  MaxFailures = 0
  MaxErrors = 0
  MaxCrashes = 1
  BlockOf <- EarlyBlocks
SPECIFICATION FairSpec
PROPERTY Relayed
\* Starcoin ends at Top, and the relayer is done with it at last.
CHECK_DEADLOCK FALSE
