SPECIFICATION Spec
CONSTANTS
  t1 = t1
  t2 = t2
  Slots = {t1, t2}
  Codes = {"a", "b"}
  Names = {"a", "b", "pen", "ink"}
  Families = {"f"}
  None = None
  Files <- MCFiles
  Forms <- MCForms
  NoItems = NoItems
  Lines <- MCLines
  MaxProducts = 3
  MaxMoves = 2
  MaxEdits = 4
SYMMETRY MCSlots
INVARIANTS StockIsAccounted ImportAgainChangesNothing
PROPERTIES MirrorsFirst
CHECK_DEADLOCK FALSE
