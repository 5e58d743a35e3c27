SPECIFICATION MCSpec
CONSTANTS
  ThisPc = ThisPc
  Top = {network}
  Nodes = {desktop}
  Names = {videos}
  Dirs = {data, etc}
  Plain = {file}
  Missing = {gone}
  Nothing = Nothing
  MaxHistory = 4
  MaxLoads = 2
  Pids = {p1, p2}
  MaxJobs = 2
  MaxLength = 2
  MaxLost = 0
  Room = 2
  b1 = b1
  b2 = b2
  Buckets = {b1, b2}
  SavedPids = {11, 12, 13, 14}
  SavedStatuses = {0, 1}
  Ring = 3
  MaxSaved = 5
  Hash <- MCHash
SYMMETRY Symmetry
INVARIANTS
  HistoryIsHere
  QuietListing
  CurrentIsAJob
  WaitTellsTheLast
PROPERTIES
  ImplementsBrowser
  ImplementsMemory
CHECK_DEADLOCK FALSE
