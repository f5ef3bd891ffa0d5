SPECIFICATION PartsSpec
CONSTANTS
  Edits = 4
  e1 = e1
  p1 = p1
  p2 = p2
  None = None
  Budget = 3
INVARIANTS SettledIsCurrent
PROPERTIES PairGoesLive EventuallyCurrent EventuallySettled
