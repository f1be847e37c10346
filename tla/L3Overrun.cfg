SPECIFICATION Spec
CONSTANTS
  Senders = {a, b}
  Packets <- MCLongPackets
  PacketLen <- MCLongPacketLen
  L2_DATA_SIZE = 2
  LOCAL_BUFF_SIZE = 5
  TX_FIFO_DEPTH = 1
  RX_FIFO_DEPTH = 1
SYMMETRY SenderSymmetry
INVARIANTS
  OverrunOnlyByLong
