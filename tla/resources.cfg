CONSTANTS
  Conns = {k1, k2}
  Nested = {round}
  Single = {gate}
  NoOne = NoOne
  MaxInner = 1
  Clients = {round, items}
  Writers = {round}
  Nobody = Nobody
  MaxSessions = 2
  MaxFaded = 2
SPECIFICATION FairSpec
INVARIANTS TypeOK NoStandstill NoNeedlessLogin WriteRunsOnce PostsBounded
PROPERTIES EvictsOnlyDead TasksFinish
CHECK_DEADLOCK FALSE
