CONSTANTS
  a = a
  b = b
  MonitorChain = MonitorChain
  MonitorDeposit = MonitorDeposit
  Tx = {a, b}
  Putter = {MonitorChain}
  MaxRetry = 2
  Window = 1
  ListLimit = 1
  MaxCrashes = 0
SPECIFICATION Spec
SYMMETRY Symmetry
CONSTRAINTS
  NoRescan
  OneResend
  Unsettled
INVARIANTS
  InOrder
  ProcessedSound
  AttemptedOnce
PROPERTY ProcessedIsFinal
