SPECIFICATION Spec
CONSTANTS
  ClientIds <- MCClientIds
  FieldLengths <- MCFieldLengths
  Addrs = {"p"}
  Topics <- MCTopics
  PacketIds <- MCPacketIds
  MAX_CONN_CLIENTS = 3
  MAX_SUBS_TOPIC = 2
PROPERTY
  FullTableIsRefused
