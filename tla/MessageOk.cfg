SPECIFICATION Spec
CONSTANTS
  TX_FIFO_DEPTH = 3
  RX_FIFO_DEPTH = 3
PROPERTY
  OkMeansSent
