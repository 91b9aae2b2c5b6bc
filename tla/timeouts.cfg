CONSTANTS
  w1 = w1
  w2 = w2
  None = None
  Groups = {"g"}
  Tasks = {"t"}
  GroupOf <- SoloGroupOf
  Lead <- SoloLead
  IgnoreNonlead = {"g"}
  Upstream <- SoloUpstream
  MaxRetry = 0
  Workers <- Crew
  Reports = {"INITIALIZING", "RUNNING"}
  Outcomes <- Ok
  ErrorAction <- Plainly
  CancelForms = {}
  Timeouts = {"run", "start"}
  MaxCrashes = 0
  FailableJobs = {}
  BackendMayGo = TRUE
SYMMETRY WorkerSymmetry
SPECIFICATION Spec
CHECK_DEADLOCK FALSE
INVARIANTS
  RunningGroupsAreTimed
PROPERTIES
  StartTimeoutsSpareRunning
