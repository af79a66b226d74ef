SPECIFICATION FairSpec
CONSTANTS
  Scripts <- SomeScripts
  Image <- SomeImage
  LineMax = 2
  RecvBuf = 4
  WriteBuf = 2
  HostChunk = 2
INVARIANTS
  TypeOK
  LinesInOrder
  FlashedIsPayload
PROPERTIES
  Served
  UploadSucceeds
  TransferEnds
CHECK_DEADLOCK FALSE
