\* Three Starts, two goroutines that start and stop.
SPECIFICATION Spec
CONSTANTS
  Callers = {"ui", "tray"}
  MaxStarts = 3
INVARIANTS NeverStuck RunningIsTrue StopReachesIt
PROPERTY StopEndsServing
CHECK_DEADLOCK FALSE
