SPECIFICATION FairSpec
CONSTANTS
  MaxKeys = 2
  MaxPrinted = 2
  SockCap = 2
  PtyCap = 1
  BufSize = 2
  WsLen = 2
  SendsWinsize = TRUE
PROPERTY ExitLeavesKhsl
CHECK_DEADLOCK FALSE
