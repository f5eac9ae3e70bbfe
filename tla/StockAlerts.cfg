SPECIFICATION FairSpec
CONSTANTS
  m1 = m1
  m2 = m2
  w1 = w1
  w2 = w2
  Movers = {m1, m2}
  Workers = {w1, w2}
  Management = {"chief", "quiet"}
  Wants <- MCWants
  Nobody = Nobody
  NoMinimum = NoMinimum
  Default = 1
  Opening = 3
  Deltas <- MCDeltas
  Minima <- MCMinima
  Counts = {0}
  Operations = {"threshold", "patch"}
  MaxMoves = 3
  MaxEdits = 1
  MaxElapsed = 1
INVARIANTS AlertsAreFew MarkFollowsStock
PROPERTY MadeLowIsTold
CHECK_DEADLOCK FALSE
