CONSTANTS
  Skus = {s1, s2}
  Bills = {b1}
  LinesOf <- AllLines
  Doubtful = {s2}
  Cron = cron
  Users = {u1}
  Scanner = scanner
  Repushers = {r1}
  BatchSize = 2
  MaxTroubles = 2
SPECIFICATION FairSpec
INVARIANTS SuccessIsHeld
PROPERTIES ScanSendsWithArchives ApprovedIsArchived BillGetsThrough
CHECK_DEADLOCK FALSE
