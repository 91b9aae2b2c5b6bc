CONSTANTS
  w1 = w1
  w2 = w2
  None = None
  Groups = {"g"}
  Tasks = {"t"}
  GroupOf <- SoloGroupOf
  Lead <- SoloLead
  IgnoreNonlead = {"g"}
  Upstream <- SoloUpstream
  MaxRetry = 0
  Workers <- Crew
  Reports = {"RUNNING"}
  Outcomes <- Ok
  ErrorAction <- Plainly
  CancelForms = {}
  Timeouts = {}
  MaxCrashes = 1
  FailableJobs = {}
  BackendMayGo = FALSE
SYMMETRY WorkerSymmetry
SPECIFICATION Spec
CHECK_DEADLOCK FALSE
INVARIANTS
  DisconnectsAreRetried
