CONSTANTS
  MaxJobs = 2
  Target <- MCTarget
  Priority <- MCPriority
  Proof <- MCProof
  NoProof = "no-proof"
  LaneOf <- MCLanes
  KeepCompleted = 3
  MaxSpawns = 2
  MaxBoots = 1
  MaxCrashes = 0
  MaxBumps = 0
  NoTarget = "no-target"
  Faults = {"error", "drain"}
  BootRequeue = FALSE
  Metadata = {}
  MayMerge = {}
  Invalid = {}
  Claims <- MCClaims
  MergeProof = "already-merged"
  MaxWorkers = 1
  MaxControllers = 4
SPECIFICATION FairSpec
PROPERTIES PendingServed CancelAnswered OutcomeRepaired
