SPECIFICATION LiveSpec
CONSTANTS
  A = A
  B = B
  Client = {A, B}
  NoClient = NoClient
  CONNID = {id0, id1, id2}
  SVR_INVALID_CONNECT_ID = id0
  NFd = 2
  ReuseIds = FALSE
  NET_SEND_BUFF_SIZE = 5
  Response <- MCResponse
  Worker = {w1}
  NoTask = NoTask
  POOL_LIMIT = 0
  HEAD_SIZE = 1
  NET_PACK_SIZE_LIMIT = 3
  OutLen = {1, 2}
  MayDrop = TRUE
  MaxReq = 2
  CanReset = TRUE
  SNDBUF = 1
  MaxEvents = 1
  AddMayFail = FALSE
INVARIANTS
  EntryFits
PROPERTIES
  SleepOnlyWhenEmpty
  EndIsNoticed
  LoopGoesOn
  FrontIsSent
