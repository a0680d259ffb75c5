CONSTANTS
  Scanners = {s1}
  Watchers = {w1}
  Validators = {v1}
  Syncs = {}
  Humans = {}
  Free = free
  Directions = {"outbound"}
  AnswersGetLost = FALSE
  TimePasses = TRUE
  KeepsHistory = FALSE
  MaxApprovals = 2
  MaxOrders = 2
  MaxOutages = 0
  MaxCalls = 0
SPECIFICATION FairScanSpec
PROPERTIES UnauditedIsHandled ApprovedIsPushed
CHECK_DEADLOCK FALSE
