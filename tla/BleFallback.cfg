SPECIFICATION FairSpec
CONSTANTS
  KickDepth = 1
  BtcDepth = 1
  MaxOns = 2
  MaxOffs = 1
  MaxFails = 1
INVARIANTS
  TypeOK
  StartsOnlyConfigured
PROPERTIES
  LifeboatAdvertises
CHECK_DEADLOCK FALSE
