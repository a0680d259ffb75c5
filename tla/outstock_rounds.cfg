CONSTANTS
  Docs = {d1, d2}
  NoDoc = NoDoc
  Rounds = {r1, r2}
  Retriers = {}
  Humans = {}
  Recheckers = {}
  Free = Free
  MaxAttempts = 2
  MaxKills = 2
SPECIFICATION Spec
CHECK_DEADLOCK FALSE
INVARIANTS OneServiceDoc
PROPERTIES CreatedKeepsItsNumber
SYMMETRY Symmetry
VIEW RoundsView
