SPECIFICATION FairSpec
CONSTANTS
  Confirmers = {"c1", "c2"}
  Records = {"customer", "presence"}
  Parents = {"customer"}
  Contents = {"old", "new"}
  Gone = "gone"
  Actions <- MCActions
  Target <- MCTarget
  Result <- MCResult
  Rows = {"south", "keeper"}
  RestsOn <- MCRestsOn
  Editors = {"e"}
  Nobody = Nobody
  Nothing = Nothing
  PendingLimit = 2
  MaxEvents = 2
INVARIANT AppliedAtMostOnce
PROPERTIES AppliedToWhatWasShown NothingHiddenIsDeleted EveryConfirmationEnds
CHECK_DEADLOCK FALSE
