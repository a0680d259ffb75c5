CONSTANTS
  Scanners = {s1}
  Watchers = {w1}
  Validators = {}
  Syncs = {}
  Humans = {}
  Free = free
  Directions = {"outbound"}
  AnswersGetLost = FALSE
  TimePasses = FALSE
  KeepsHistory = TRUE
  MaxApprovals = 2
  MaxOrders = 2
  MaxOutages = 0
  MaxCalls = 0
SPECIFICATION Spec
PROPERTY OnlyOutdatedIsRecalled
CHECK_DEADLOCK FALSE
