SPECIFICATION Spec
CONSTANTS
  Clients = {c1}
  HasFallback = TRUE
  BleOta = FALSE
  FlashMayFail = FALSE
  InitCreds = {TRUE}
  StreakCap = 3
  QueueDepth = 1
  MaxEvq = 1
  MaxResets = 0
INVARIANT RecoveryHasLifeboat
CHECK_DEADLOCK FALSE
