CONSTANTS
  Bills = {b1}
  Workers = {w1}
  Callers = {c1, c2}
  Free = Free
  SessionsMayDrop = FALSE
SPECIFICATION FairSpec
INVARIANTS TypeOK AtMostOnce JournalTellsOfSend VerdictIsHonest OneCancelEntry HoldStopsDispatch QueueWaitsForWork
PROPERTIES ClaimSettles QueueDrains
CHECK_DEADLOCK FALSE
