SPECIFICATION FairTurnsSpec
CONSTANTS
  Slots = {"s", "t"}
  Asks <- MCAsks
  Texts <- MCTexts
  NoOwner = NoOwner
  Dead = Dead
  None = None
  MessageLimit = 4
  MaxSelections = 1
  MaxTroubles = 2
INVARIANTS WorkersOwnTheLease AnswersTheQuestion
PROPERTY EveryAskIsSettled
CHECK_DEADLOCK FALSE
