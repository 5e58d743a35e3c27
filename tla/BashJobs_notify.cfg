SPECIFICATION JobsSpec
CONSTANTS
  Pids = {p1, p2}
  MaxJobs = 2
  MaxLength = 2
  MaxLost = 1
  Room = 2
INVARIANT LearnsImmediately
CHECK_DEADLOCK FALSE
