SPECIFICATION Spec
CONSTANTS
  t1 = t1
  t2 = t2
  Slots = {t1, t2}
  Emails = {"ann", "bob", "cal"}
  Stores = {1, 2}
  Central = 2
  Hidden = {2}
  Roles = {"seller", "chief"}
  NoRole = NoRole
  NoStores = NoStores
  NoStore = NoStore
  Opening <- MCOpening
  Enrolment <- MCEnrolment
  Flags <- MCFlags
  Lists <- MCLists
  MaxUsers = 3
  MaxMembers = 3
  MaxEdits = 2
SYMMETRY MCSlots
INVARIANTS PointageRights ScopesAgree
PROPERTIES AdministratorsRemain AloneAFormIsExact
CHECK_DEADLOCK FALSE
