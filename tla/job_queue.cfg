CONSTANTS
  None = None
  Ids = {"x"}
  Copies = {"plain", "cancel", "late"}
  IdOf <- ThreeCopies
  Delayed = {"late"}
  Cancels = {"cancel"}
  Workers = {"v", "w"}
  RetryLimit = 1
  MaxCrashes = 1
SPECIFICATION FairSpec
CHECK_DEADLOCK FALSE
INVARIANTS
  TypeOK
  KeysAreLive
  RetriesAreBounded
  RunAlone
PROPERTIES
  OnlyOwnersRun
  JobsSettle
