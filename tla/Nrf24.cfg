SPECIFICATION Spec
CONSTANTS
  TX_FIFO_DEPTH = 3
  RX_FIFO_DEPTH = 3
INVARIANTS
  TypeOK
  DeafOnceAnswered
PROPERTIES
  DataReadyIsExact
  ReportIsTrueFromEmpty
  CallsReturn
