SPECIFICATION Spec
CONSTANTS
  Errors = {"TRYING", "DISCONNECTED"}
  QueueDepth = 1
  MaxSets = 2
  MaxAlerts = 2
  MaxLinks = 2
INVARIANTS
  TypeOK
  AttrFollows
  LastSentInStep
  AlertNeverMissed
CHECK_DEADLOCK FALSE
