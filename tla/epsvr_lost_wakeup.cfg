SPECIFICATION Spec
CONSTANTS
  Client = {k1}
  NoClient = NoClient
  CONNID = {id0, id1}
  SVR_INVALID_CONNECT_ID = id0
  NFd = 1
  ReuseIds = FALSE
  NET_SEND_BUFF_SIZE = 5
  Response <- MCResponse
  Worker = {w1}
  NoTask = NoTask
  POOL_LIMIT = 0
  HEAD_SIZE = 1
  NET_PACK_SIZE_LIMIT = 2
  OutLen = {1}
  MayDrop = TRUE
  MaxReq = 1
  CanReset = TRUE
  SNDBUF = 2
  MaxEvents = 1
  AddMayFail = TRUE
SYMMETRY Symmetry
INVARIANTS
  NoLostWakeup
