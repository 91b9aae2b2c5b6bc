CONSTANTS
  Jobs = {"a", "b"}
  NoJob = NoJob
  MaxLinks = 2
  Strips = {2, 3}
  Pointers = {2, 10, 30, 90, 100}
  Kept = {3, 45, 60, 100}
  NoWidth = NoWidth
  MaxAttempts = 3
  DateOf <- Days
  MaxEntries = 3
  MaxRetries = 1
  Queries <- Filters
  MaxRuns = 2
  MaxBreaks = 1
SPECIFICATION Spec
INVARIANTS
  LinkTypeOK ResultsAreOwn
  PanelTypeOK RemembersWidth StoreFollowsWidth
  ShellTypeOK AttachedIsOpen OneConnection OutputIsOnShow
  StreamTypeOK ShownIsOnePiece CompleteShowsAll ListIsFull SelectionStaysPut
PROPERTIES
  OnlyDragsForget PanelComesToRest
  ShellSettles
  ShowsInTheEnd
CHECK_DEADLOCK FALSE
