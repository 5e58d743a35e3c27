SPECIFICATION Spec
CONSTANTS
  MaxKeys = 3
  MaxPrinted = 1
  SockCap = 2
  PtyCap = 1
  BufSize = 2
  WsLen = 2
  SendsWinsize = FALSE
INVARIANT WinsizeIsClients
CHECK_DEADLOCK FALSE
