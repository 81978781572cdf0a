\* One import fails on Poly.
CONSTANTS
  a = a
  b = b
  Event = {a, b}
  Start = 4
  Top = 9
  ForkAt = 0
  Useful = 1
  ProofUseful = 3
  Confirmations = 1
  HeadersPerBatch = 1
  Upsert = TRUE
  MaxImports = 2
  MaxFailures = 1
  MaxErrors = 0
  MaxCrashes = 0
  BlockOf <- EarlyBlocks
SPECIFICATION Spec
PROPERTY TransferIsKept
\* Starcoin ends at Top, and the relayer is done with it at last.
CHECK_DEADLOCK FALSE
