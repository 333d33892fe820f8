SPECIFICATION Spec
CONSTANTS
  Client = {k1}
  NoClient = NoClient
  CONNID = {id0, id1}
  SVR_INVALID_CONNECT_ID = id0
  NFd = 1
  ReuseIds = FALSE
  NET_SEND_BUFF_SIZE = 5
  Response <- MCResponse
  Worker = {w1}
  NoTask = NoTask
  POOL_LIMIT = 0
  HEAD_SIZE = 1
  NET_PACK_SIZE_LIMIT = 3
  OutLen = {1, 3}
  MayDrop = FALSE
  MaxReq = 1
  CanReset = FALSE
  SNDBUF = 1
  MaxEvents = 1
  AddMayFail = FALSE
INVARIANTS
  PackWithinLimit
