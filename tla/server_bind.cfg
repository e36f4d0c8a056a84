\* A port that is taken.
SPECIFICATION Spec
CONSTANTS
  Callers = {"ui", "tray"}
  MaxStarts = 3
INVARIANT StartReportsFailure
CHECK_DEADLOCK FALSE
