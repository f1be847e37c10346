SPECIFICATION Spec
CONSTANTS
  Senders = {a, b}
  Packets <- MCPackets
  PacketLen <- MCPacketLen
  L2_DATA_SIZE = 2
  LOCAL_BUFF_SIZE = 4
  TX_FIFO_DEPTH = 2
  RX_FIFO_DEPTH = 2
SYMMETRY SenderSymmetry
INVARIANTS
  TypeOK
PROPERTIES
  DeliveredAnew
  OneFrameIsDelivered
