\* MySQL; two events in one block; a call, an import and the process fail once.
CONSTANTS
  a = a
  b = b
  Event = {a, b}
  Start = 8
  Top = 12
  ForkAt = 0
  Useful = 1
  ProofUseful = 3
  Confirmations = 0
  HeadersPerBatch = 2
  Upsert = FALSE
  MaxImports = 1
  MaxFailures = 1
  MaxErrors = 1
  MaxCrashes = 1
  BlockOf <- OneBlock
SPECIFICATION Spec
INVARIANTS
  TypeOK
  NoEventSkipped
  NoHeaderSkipped
\* Starcoin ends at Top, and the relayer is done with it at last.
CHECK_DEADLOCK FALSE
