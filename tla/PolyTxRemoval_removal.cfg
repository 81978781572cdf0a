CONSTANTS
  a = a
  b = b
  Tx = {a, b}
  NoRoot = NoRoot
  BadRoot = BadRoot
  MaxRetry = 2
  MaxPushes = 1
  MaxFaults = 1
SPECIFICATION Spec
INVARIANTS
  TypeOK
  NeverLost
PROPERTIES
  
  Unblocked
  PushedBack
CONSTRAINT OneResent
