CONSTANTS
  x = x
  y = y
  z = z
  big = big
  Ann = Ann
  Transfer = {x, y, z, big}
  Unreadable = {big}
  Payee <- PayeeOfAll
  Subsidised = {x, y, z, big}
  Cap = 2
  MaxRetry = 2
  MaxFaults = 1
SPECIFICATION Spec
CONSTRAINTS
  BigIsFirst
  ThirdIsLast
INVARIANTS
  TypeOK
  PaidOnce
  DoneIsPaid
  Capped
PROPERTY Settled
PROPERTY ImplementsOrders
