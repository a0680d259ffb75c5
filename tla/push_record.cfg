CONSTANTS
  Scanners = {s1}
  Watchers = {w1}
  Validators = {v1}
  Syncs = {y1}
  Humans = {h1}
  Free = free
  Directions = {"outbound", "inbound"}
  AnswersGetLost = TRUE
  TimePasses = FALSE
  KeepsHistory = FALSE
  MaxApprovals = 2
  MaxOrders = 2
  MaxOutages = 1
  MaxCalls = 1
SPECIFICATION Spec
CONSTRAINT OnePersonOnly
INVARIANTS CancelTellsTruth OnlyDeletedIsRecalled
 
CHECK_DEADLOCK FALSE
