SPECIFICATION FairNoticesSpec
CONSTANTS
  Forms = {"f1", "f2"}
  Tellers = {"w1", "w2"}
  Admins = {"admin"}
  Clients = {"chief_tab"}
  UserOf <- MCUserOf
  Users = {"chief", "keeper"}
  Managers = {"chief", "keeper"}
  Directors = {"chief"}
  Old = {"chief"}
  Values = {"open", "maintenance"}
  DefaultState = "open"
  Unknown = "unknown"
  MaxNotices = 2
  MaxEvents = 3
INVARIANTS ChoicesStay ShowsTheState
PROPERTY EveryNoticeArrives
CHECK_DEADLOCK FALSE
