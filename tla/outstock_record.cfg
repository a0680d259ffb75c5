CONSTANTS
  Docs = {d1}
  NoDoc = NoDoc
  Rounds = {r1}
  Retriers = {a1}
  Humans = {h1}
  Recheckers = {k1}
  Free = Free
  MaxAttempts = 2
  MaxKills = 1
SPECIFICATION Spec
CHECK_DEADLOCK FALSE
INVARIANTS TypeOK CreatedIsFounded ResolvedWasAudited RetriesBounded
