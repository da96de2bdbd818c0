CONSTANTS
  MaxJobs = 1
  Target <- MCTarget
  Priority <- MCPriorities
  Proof <- MCProof
  NoProof = "no-proof"
  LaneOf <- MCLanes
  KeepCompleted = 3
  MaxSpawns = 3
  MaxBoots = 2
  MaxCrashes = 2
  MaxBumps = 1
  NoTarget = "no-target"
  Faults = {"error", "worker"}
  BootRequeue = TRUE
  Metadata = {}
  MayMerge = {}
  Invalid = {}
  Claims <- MCClaims
  MergeProof = "already-merged"
  MaxWorkers = 1
  MaxControllers = 4
SPECIFICATION Spec
CONSTRAINT BumpAlone
INVARIANTS OneTreeUnlessExposed PendingUnleasedUnlessExposed
PROPERTIES CancelKept
