SPECIFICATION Spec
CONSTANTS
  Stacks = {s1}
  Fds = {f1, f2}
  BusDepth = 1
  Polite = FALSE
  MaxSessions = 2
  MaxAsks = 1
SYMMETRY Symm
INVARIANT LateReplyStopped
CHECK_DEADLOCK FALSE
