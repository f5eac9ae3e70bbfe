SPECIFICATION MCSpec
CONSTANTS
  r1 = r1
  r2 = r2
  r3 = r3
  Requests = {r1, r2, r3}
  NoRequest = NoRequest
  NoDoc = NoDoc
  Stores <- MCStores
  Products <- MCProducts
  GlobalStock = "mbr"
  Docs <- MCDocs
  Doc <- MCDoc
  PurchasePrice <- MCPrice
  Opening <- MCOpening
INVARIANTS BalanceMatchesMovements ChecksFollowCommits
PROPERTIES InventorySetsTheCount ImplementsLedger EveryRequestEnds
CHECK_DEADLOCK FALSE
