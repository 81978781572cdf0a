CONSTANTS
  a = a
  b = b
  MonitorChain = MonitorChain
  MonitorDeposit = MonitorDeposit
  Tx = {a}
  Putter = {MonitorChain}
  MaxRetry = 2
  Window = 1
  ListLimit = 1
  MaxCrashes = 1
SPECIFICATION FairSpec
PROPERTY Settles
