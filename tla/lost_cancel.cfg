CONSTANTS
  w1 = w1
  w2 = w2
  None = None
  Groups = {"g"}
  Tasks = {"t"}
  GroupOf <- SoloGroupOf
  Lead <- SoloLead
  IgnoreNonlead = {"g"}
  Upstream <- SoloUpstream
  MaxRetry = 0
  Workers <- Crew
  Reports = {"SCHEDULING"}
  Outcomes <- Ok
  ErrorAction <- Plainly
  CancelForms = {FALSE}
  Timeouts = {}
  MaxCrashes = 0
  FailableJobs = {}
  BackendMayGo = FALSE
SPECIFICATION FairSpec
CHECK_DEADLOCK FALSE
PROPERTIES
  CancelTakesEffect
