SPECIFICATION FairSpec
CONSTANTS
  Subjects = {"domain", "absent", "drain"}
  Procs = {"x", "y", "z"}
  Keys = {"k"}
  Vals = {"v", "w"}
  Faults = TRUE
  Threads = {"t1", "t2"}
  GuardOf <- Guardians
  Impatient = TRUE
  DomainLine <- ActorsInLine
  Repo = {"a", "b"}
  Proc = {"p", "q"}
  Updates = 2
  ShipKills = 1
  OldBinaries = TRUE
  Losses = 2
  RecoveryDeaths = 2
  DrainSlots = 2
  DrainWorkers = 3
  DrainKept = 3
  DrainJobs = 2
  DrainDeaths = 0
  DrainCases <- DrainLiveness
  DrainPriorities = {1}
  DrainLanes <- OwnLanes
  Audits = {"a1"}
  Depth = 2
  RecoveryJobs = 4
  Submits = 2
  RecoveryOutages = FALSE
CHECK_DEADLOCK FALSE
PROPERTIES EveryoneEnters Answered CommandReturns
