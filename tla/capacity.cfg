SPECIFICATION FairSpec
CONSTANTS
  Jobs = {"j1", "j2"}
  Canaries = {"c1"}
  Audits = {"a1"}
  WorkOf <- OneWork
  SilentAt = {"down", "start"}
  Unreadable = {"j1"}
  Survives = TRUE
  MaxCrashes = 1
INVARIANTS OneNativeWorker AuditExcludesQueue
PROPERTIES JobServed
