CONSTANTS
  w1 = w1
  w2 = w2
  None = None
  Groups = {"g"}
  Tasks = {"t"}
  GroupOf <- SoloGroupOf
  Lead <- SoloLead
  IgnoreNonlead = {"g"}
  Upstream <- SoloUpstream
  MaxRetry = 2
  Workers <- Crew
  Reports = {}
  Outcomes <- EndsRetry
  ErrorAction <- Again
  CancelForms = {FALSE, TRUE}
  Timeouts = {}
  MaxCrashes = 0
  FailableJobs = {"RescheduleTask"}
  BackendMayGo = FALSE
SYMMETRY WorkerSymmetry
SPECIFICATION Spec
CHECK_DEADLOCK FALSE
INVARIANTS
  RetriesFollowReschedule
  LogsMoveAfterEnd
  NoOrphanPods
