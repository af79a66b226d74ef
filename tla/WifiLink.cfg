SPECIFICATION FairSpec
CONSTANTS
  Callers = {c1, c2}
  MaxEvq = 3
  MaxStarting = 2
INVARIANTS
  TypeOK
  NeverStranded
  StartNeverAborts
PROPERTIES
  ServerComes
