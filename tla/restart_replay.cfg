CONSTANTS
  MaxJobs = 1
  Target <- MCTarget
  Priority <- MCPriority
  Proof <- MCProof
  NoProof = "no-proof"
  LaneOf <- MCLanes
  KeepCompleted = 3
  MaxSpawns = 3
  MaxBoots = 2
  MaxCrashes = 2
  MaxBumps = 0
  NoTarget = "no-target"
  Faults = {"worker"}
  BootRequeue = TRUE
  Metadata = {}
  MayMerge = {}
  Invalid = {}
  Claims <- MCClaims
  MergeProof = "already-merged"
  MaxWorkers = 1
  MaxControllers = 4
SPECIFICATION Spec
INVARIANT OneTreePerJob
