CONSTANTS
  MonitorChain = MonitorChain
  MonitorFailedPolyTx = MonitorFailedPolyTx
  r = r
  s = s
  None = None
  Monitor = {MonitorChain, MonitorFailedPolyTx}
  Keepers = {MonitorChain}
  Router = {r, s}
  ChanLen = 1
  First = 1
  MaxJobs = 3
  MaxFaults = 2
SPECIFICATION Spec
INVARIANTS
  TypeOK
  Unique
  NoOtherGap
PROPERTIES
  Flows
  Served
\* There are no more jobs at last.
CHECK_DEADLOCK FALSE
