SPECIFICATION SessionSpec
CONSTANTS
  MaxKeys = 4
  MaxPrinted = 4
  SockCap = 3
  PtyCap = 1
  BufSize = 2
  WsLen = 2
  SendsWinsize = TRUE
  MaxWords = 3
  MaxStruck = 2
  KhslPrinted = 2
INVARIANTS
  TypeOK
  WinsizeIsClients
  RunsWhatWasAsked
PROPERTIES
  ImplementsPipe
  ImplementsSession
  RelayDrains
  LeavingEndsShell
  EndGivesTerminalBack
CHECK_DEADLOCK FALSE
