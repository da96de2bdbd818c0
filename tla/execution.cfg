CONSTANTS
  MaxJobs = 1
  Target <- MCTarget
  Priority <- MCPriority
  Proof <- MCProof
  NoProof = "no-proof"
  LaneOf <- MCLanes
  KeepCompleted = 3
  MaxSpawns = 3
  MaxBoots = 1
  MaxCrashes = 2
  MaxBumps = 0
  NoTarget = "no-target"
  Faults = {"io", "worker", "error", "spawn", "kill", "probe", "drain"}
  BootRequeue = FALSE
  Metadata = {}
  MayMerge = {1}
  Invalid = {}
  Claims <- MCClaims
  MergeProof = "already-merged"
  MaxWorkers = 1
  MaxControllers = 4
SPECIFICATION Spec
INVARIANTS Custody ValidationLeased TxnTruthful FrozenCondemned
PROPERTIES ReplayAfterDeath CancelledAfterDeath ImplementsExclusive
