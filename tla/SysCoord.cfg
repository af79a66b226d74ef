SPECIFICATION Spec
CONSTANTS
  Clients = {c1}
  HasFallback = TRUE
  BleOta = TRUE
  FlashMayFail = FALSE
  InitCreds = {TRUE, FALSE}
  StreakCap = 3
  QueueDepth = 1
  MaxEvq = 1
  MaxResets = 1
INVARIANTS
  TypeOK
  NormalImpliesProven
  WatchedWhileWaiting
  NoRollbackMidFlash
  UnprovenRollsBackFirst
PROPERTIES
  ImplementsControl
CHECK_DEADLOCK FALSE
