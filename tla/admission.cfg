CONSTANTS
  MaxJobs = 5
  Target <- MCTargets
  Priority <- MCPriority
  Proof <- MCProof
  NoProof = "no-proof"
  LaneOf <- MCSharedLane
  KeepCompleted = 1
  MaxSpawns = 2
  MaxBoots = 1
  MaxCrashes = 0
  MaxBumps = 0
  NoTarget = "no-target"
  Faults = {"envelope"}
  BootRequeue = FALSE
  Metadata = {3, 4}
  MayMerge = {}
  Invalid = {5}
  Claims <- MCSomeClaims
  MergeProof = "already-merged"
  MaxWorkers = 1
  MaxControllers = 1
SPECIFICATION Spec
INVARIANTS RunningFit
PROPERTIES TerminalFinal
CONSTRAINTS OneCancelled InOrder
