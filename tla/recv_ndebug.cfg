SPECIFICATION Spec
CONSTANTS
  Conn = {c1}
  HEAD_SIZE = 2
  NET_RECV_BUFF_SIZE = 8
  NET_REMAIN_CACHE_SIZE = 4
  MaxBytes = 6
  Main = c1
  Short = 6
  Sends <- MCSends
  DataLen = {0, 2}
  Streams <- MCStreams
  NDEBUG = TRUE
INVARIANTS
  StreamIntact
CHECK_DEADLOCK FALSE
