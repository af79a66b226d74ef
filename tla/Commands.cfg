SPECIFICATION Spec
CONSTANTS
  Stacks = {s1, s2}
  Fds = {f1, f2}
  BusDepth = 2
  Polite = TRUE
  MaxSessions = 3
  MaxAsks = 2
SYMMETRY Symm
INVARIANTS
  TypeOK
  AnsweredOnce

  
CHECK_DEADLOCK FALSE
