SPECIFICATION Spec
CONSTANTS
  Requests <- MCRequests
  ServerSends <- MCServerSends
  RX_BUF_LEN = 6
  TX_BUF_LEN = 4
  MAX_QUEUE = 2
  MAX_CALLS = 3
INVARIANT TypeOK
INVARIANT TroubleOnlyAfterCut PayloadOnceInOrder
PROPERTY DeafUntilInit
PROPERTY KeepsPromise
PROPERTY CallsReturn
