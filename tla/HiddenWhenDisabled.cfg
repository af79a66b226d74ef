SPECIFICATION Spec
CONSTANTS
  KickDepth = 1
  BtcDepth = 1
  MaxOns = 1
  MaxOffs = 1
  MaxFails = 0
INVARIANT HiddenWhenDisabled
CHECK_DEADLOCK FALSE
