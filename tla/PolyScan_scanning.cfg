CONSTANTS
  a = a
  b = b
  Event = {a, b}
  Block <- OneBlock
  Start = 2
  Top = 7
  Epochs = {5}
  CheckFee = FALSE
  MaxErrors = 1
  MaxCrashes = 1
SPECIFICATION FairSpec
INVARIANTS
  TypeOK
  NothingMissed
PROPERTIES
  HandledOrDiverged
  Committed
  EpochsFollow
  ImplementsIntake
\* Poly ends at Top, and the relayer is done with it at last.
CHECK_DEADLOCK FALSE
