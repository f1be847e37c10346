SPECIFICATION Spec
CONSTANTS
  Requests <- MCRequests
  Topics <- MCTopics
  MAX_SUBS_TOPIC = 2
  MAX_CONN_CLIENTS = 1
  MAX_FLIGHT = 1
INVARIANTS
  TypeOK
  ReadsWhatFits
  SuccessIsExplained
PROPERTIES
  
  KeptUpSucceeds
