SPECIFICATION FairSpec
CONSTANTS
  Requests = {r1}
  Deadline = 3
  Interval = 1
  Timeout = 1
  MaxHeartbeats = 1
  MaxTries = 3
  MaxNow = 4
  MaxCrashes = 1
CHECK_DEADLOCK FALSE
INVARIANTS ReceiptsTrue LaunchedOnce TerminalQuiet CancelHonoured
PROPERTIES JobEnds
