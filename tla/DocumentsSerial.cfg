SPECIFICATION Spec
CONSTANTS
  t1 = t1
  Slots = {t1}
  Docs = {"transfer", "purchase", "inventory", "request", "request2"}
  Kind <- MCKind
  Articles = {"a"}
  Stores = {"central", "shop"}
  Central = "central"
  Users = {"head", "keeper", "seller"}
  Nobody = "nobody"
  Staff = {}
  Role <- MCRole
  Operations = {"create", "edit", "validate", "delete", "reject"}
  Fragile = {"inventory", "request"}
  MaxEdits = 3
INVARIANTS AppliedIffPosted MovedByRight
PROPERTY PostedIsFrozen
CHECK_DEADLOCK FALSE
