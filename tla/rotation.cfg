CONSTANTS
  Newest = 4
  Slots = 2
  Window = 3
  MaxStuck = 1
  MaxEvents = 1
SPECIFICATION FairSpec
INVARIANTS TypeOK NoOvertaking
PROPERTIES DueGetsTurns
CHECK_DEADLOCK FALSE
