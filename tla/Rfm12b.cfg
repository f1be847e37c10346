SPECIFICATION Spec
CHECK_DEADLOCK FALSE
CONSTANTS
  Buffers <- MCBuffers
  TX_LEN = 2
  FIFO_LEN = 2
INVARIANTS
  TypeOK
  FramesWhole
PROPERTIES
  SendsEnd
  ReadsInOrder
  RecvIsForGood
