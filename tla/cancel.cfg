CONSTANTS
  w1 = w1
  w2 = w2
  None = None
  Groups = {"g"}
  Tasks = {"t"}
  GroupOf <- SoloGroupOf
  Lead <- SoloLead
  IgnoreNonlead = {}
  Upstream <- SoloUpstream
  MaxRetry = 0
  Workers <- Crew
  Reports = {"SCHEDULING", "RUNNING"}
  Outcomes <- Ok
  ErrorAction <- Plainly
  CancelForms = {FALSE}
  Timeouts = {"queue"}
  MaxCrashes = 0
  FailableJobs = {}
  BackendMayGo = FALSE
SPECIFICATION FairSpec
CHECK_DEADLOCK FALSE
PROPERTIES
  CancelEnds
  WorkflowEnds
