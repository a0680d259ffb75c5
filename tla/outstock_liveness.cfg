CONSTANTS
  Docs = {d1, d2}
  NoDoc = NoDoc
  Rounds = {r1}
  Retriers = {a1}
  Humans = {}
  Recheckers = {}
  Free = Free
  MaxAttempts = 1
  MaxKills = 1
SPECIFICATION FairSpec
CHECK_DEADLOCK FALSE
INVARIANTS NeverAuditsTwo
PROPERTIES MatchedOrderSettles LockReleased ImplementsDocumentOnce
