SPECIFICATION FairSpec
CONSTANTS
  Node = {n0, n1, n2, n3}
  NULL = NULL
  Payload = {a, b}
  NoItem = NoItem
  DataLen = {1, 2}
  BufLen = {0, 1, 2}
INVARIANTS
  TypeOK
  ListSound
  NothingLeaked
PROPERTIES
  ImplementsFifo
  ClearEnds
CHECK_DEADLOCK FALSE
