CONSTANTS
  MaxJobs = 1
  Target <- MCTarget
  Priority <- MCPriorities
  Proof <- MCProof
  NoProof = "no-proof"
  LaneOf <- MCLanes
  KeepCompleted = 3
  MaxSpawns = 2
  MaxBoots = 1
  MaxCrashes = 0
  MaxBumps = 1
  NoTarget = "no-target"
  Faults = {}
  BootRequeue = FALSE
  Metadata = {}
  MayMerge = {}
  Invalid = {}
  Claims <- MCClaims
  MergeProof = "already-merged"
  MaxWorkers = 1
  MaxControllers = 4
SPECIFICATION Spec
INVARIANT OneTreePerJob
