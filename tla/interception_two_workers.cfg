CONSTANTS
  Bills = {b1}
  Workers = {w1, w2}
  Callers = {c1}
  Free = Free
  SessionsMayDrop = TRUE
SPECIFICATION Spec
INVARIANTS SucceededMeansCancelled
PROPERTIES ImplementsCancelOnce
SYMMETRY Symmetry
CHECK_DEADLOCK FALSE
