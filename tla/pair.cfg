CONSTANTS
  w1 = w1
  w2 = w2
  None = None
  Groups = {"g"}
  Tasks = {"lead", "side"}
  GroupOf <- PairGroupOf
  Lead <- PairLead
  IgnoreNonlead = {}
  Upstream <- SoloUpstream
  MaxRetry = 1
  Workers <- Crew
  Reports = {}
  Outcomes <- EndsRetry
  ErrorAction <- Plainly
  CancelForms = {}
  Timeouts = {}
  MaxCrashes = 0
  FailableJobs = {}
  BackendMayGo = FALSE
SYMMETRY WorkerSymmetry
SPECIFICATION Spec
CHECK_DEADLOCK FALSE
INVARIANTS
  CompletedGroupsRan
PROPERTIES
  GroupsStayFinished
