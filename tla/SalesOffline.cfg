SPECIFICATION FairSpec
CONSTANTS
  t1 = t1
  t2 = t2
  Slots = {t1, t2}
  Stores <- MCStores
  Products <- MCProducts
  Keys <- MCKeys
  NoKey = NoKey
  Payloads <- OfflinePayloads
  Payload <- OfflinePayload
  Opening <- OfflineOpening
  Components <- MCComponents
  NewLines <- MCNewLines
  Targets = {"shop"}
  Offering = {"shop"}
  Customers = {"ada"}
  Nobody = "nobody"
  Home <- MCHome
  Modes = {"credit"}
  NoMode = "none"
  Credit = "credit"
  NewKeys = {NoKey}
  NewCustomers = {"ada"}
  Operations = {"create", "patch", "promotion", "withdraw", "forget"}
  MaxSales = 3
  MaxCrashes = 1
INVARIANTS SoldOncePerKey SoldPromotionStays CreditIsOwed
PROPERTY EverySaleIsSettled
CHECK_DEADLOCK FALSE
