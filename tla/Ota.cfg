SPECIFICATION FairSpec
CONSTANTS
  Tcp = {t1}
  SlotSize = 3
INVARIANTS
  TypeOK
  BooksAgree
  NoHandleLeak
  EarnedSwitch
  NeverShifted
  LinkOwnsTransfer
PROPERTIES
  TcpOtaEnds
