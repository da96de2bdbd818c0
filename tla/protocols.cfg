SPECIFICATION Spec
CONSTANTS
  Subjects = {"file", "bytes", "proofs", "domain", "ship_state", "absent", "drain"}
  Procs = {"x", "y", "z"}
  Keys = {"k"}
  Vals = {"v", "w"}
  Faults = TRUE
  Threads = {"t1", "t2"}
  GuardOf <- Guardians
  Impatient = TRUE
  DomainLine <- ActorsInLine
  Repo = {"a", "b"}
  Proc = {"p", "q"}
  Updates = 2
  ShipKills = 1
  OldBinaries = TRUE
  Losses = 2
  RecoveryDeaths = 2
  DrainSlots = 2
  DrainWorkers = 3
  DrainKept = 3
  DrainJobs = 3
  DrainDeaths = 1
  DrainCases <- DrainSafety
  DrainPriorities = {1}
  DrainLanes <- OwnLanes
  Audits = {"a1", "a2"}
  Depth = 3
  RecoveryJobs = 4
  Submits = 2
  RecoveryOutages = TRUE
CHECK_DEADLOCK FALSE
INVARIANTS FileSafe DomainSafe ShipStateSafe OneGoesOn DrainSafe
PROPERTIES KeepsPromise RecoverySafe DrainScoped
