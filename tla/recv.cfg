SPECIFICATION FairSpec
CONSTANTS
  Conn = {c1, c2}
  HEAD_SIZE = 2
  NET_RECV_BUFF_SIZE = 6
  NET_REMAIN_CACHE_SIZE = 3
  MaxBytes = 7
  Main = c1
  Short = 2
  Sends <- MCSends
  DataLen = {0, 1}
  Streams <- MCStreams
  NDEBUG = FALSE
INVARIANTS
  TypeOK
  StreamIntact
  RecvBuffBound
  NoFalseDisconnect
  AssertsHold
PROPERTIES
  CompletePackageParsed
  EndNoticed
CHECK_DEADLOCK FALSE
