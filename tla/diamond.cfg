CONSTANTS
  w1 = w1
  w2 = w2
  None = None
  Groups = {"a", "b", "c", "d"}
  Tasks = {"s", "t", "u", "v"}
  GroupOf <- DiamondGroupOf
  Lead <- DiamondLead
  IgnoreNonlead = {}
  Upstream <- DiamondUpstream
  MaxRetry = 0
  Workers <- Crew
  Reports = {}
  Outcomes <- Ends
  ErrorAction <- Plainly
  CancelForms = {}
  Timeouts = {}
  MaxCrashes = 0
  FailableJobs = {}
  BackendMayGo = TRUE
SPECIFICATION FairSpec
CHECK_DEADLOCK FALSE
INVARIANTS
  StartsAfterUpstream
  NothingStuck
PROPERTIES
  ImplementsFlow
  WorkflowEnds
