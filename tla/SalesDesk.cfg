SPECIFICATION Spec
CONSTANTS
  t1 = t1
  t2 = t2
  Slots = {t1}
  Stores <- TwoStores
  Products <- MCProducts
  Keys <- MCKeys
  NoKey = NoKey
  Payloads <- DeskPayloads
  Payload <- DeskPayload
  Opening <- TwoOpening
  Components <- MCComponents
  NewLines <- OneNewLine
  Targets = {"annex"}
  Offering = {"shop"}
  Customers = {"ada"}
  Nobody = "nobody"
  Home <- MCHome
  Modes = {"credit"}
  NoMode = "none"
  Credit = "credit"
  NewKeys = {NoKey}
  NewCustomers = {}
  Operations = {"create", "void", "patch", "move", "delete", "offer", "withdraw", "customer", "mode"}
  MaxSales = 3
  MaxCrashes = 0
INVARIANT SaleMatchesStock
CHECK_DEADLOCK FALSE
