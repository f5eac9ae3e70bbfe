SPECIFICATION Spec
CONSTANTS
  t1 = t1
  t2 = t2
  Slots = {t1, t2}
  Users = {"chief", "seller"}
  Staff = {"chief"}
  Stores = {"shop", "annex"}
  NoStore = NoStore
  Days = {0, 1}
  Amounts = {1}
  Periods <- MCPeriods
  Enough = 1
  AlertsShown = 1
  Opening <- MCOpening
  Rights <- MCRights
  MaxRows = 6
  MaxWrites = 2
  MaxReports = 1
SYMMETRY MCSlots
INVARIANTS QuietReportAdds WholeIsTheSumOfItsParts
PROPERTIES ExpensesStayManaged
CHECK_DEADLOCK FALSE
