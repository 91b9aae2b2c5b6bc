CONSTANTS
  w1 = w1
  w2 = w2
  None = None
  Groups = {"g"}
  Tasks = {"t"}
  GroupOf <- SoloGroupOf
  Lead <- SoloLead
  IgnoreNonlead = {"g"}
  Upstream <- SoloUpstream
  MaxRetry = 1
  Workers <- Crew
  Reports = {}
  Outcomes <- EndsRetry
  ErrorAction <- Completes
  CancelForms = {}
  Timeouts = {}
  MaxCrashes = 1
  FailableJobs = {"CreateGroup", "CleanupGroup", "RescheduleTask"}
  BackendMayGo = TRUE
SYMMETRY WorkerSymmetry
SPECIFICATION Spec
CHECK_DEADLOCK FALSE
INVARIANTS
  TypeOK
  WorkflowEndsWithGroups
  RetriesFollowReschedule
