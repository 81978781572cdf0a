CONSTANTS
  a = a
  b = b
  MonitorChain = MonitorChain
  MonitorDeposit = MonitorDeposit
  Tx = {a, b}
  Putter = {MonitorChain, MonitorDeposit}
  MaxRetry = 1
  Window = 1
  ListLimit = 1
  MaxCrashes = 1
SPECIFICATION Spec
SYMMETRY Symmetry
INVARIANTS
  TypeOK
  ProofChain
PROPERTY ImplementsDelivery
