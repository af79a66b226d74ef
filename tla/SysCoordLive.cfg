SPECIFICATION FairSpec
CONSTANTS
  Clients = {c1}
  HasFallback = FALSE
  BleOta = FALSE
  FlashMayFail = TRUE
  InitCreds = {TRUE}
  StreakCap = 3
  QueueDepth = 1
  MaxEvq = 1
  MaxResets = 0
PROPERTIES
  
  StaleNormalHeals
