\* Three sessions with lines of one or two units, files of three, a ring of
\* two, a clock of two seconds, a failing system call, an end or a crash of
\* the program.
SPECIFICATION Spec
CONSTANTS
  LineSize <- Lines
  MaxSize = 3
  MaxOld = 1
  MaxTime = 1
  MaxFaults = 1
  Sessions = {1, 2, 3}
  Capacity = 2
  Limit = 1
  MaxShown = 2
  MaxRestarts = 1
INVARIANTS WrittenIsKept FilesKeepOrder FilesAreBounded LoggedFirst WindowAgrees
PROPERTY RingIsRecent
CHECK_DEADLOCK FALSE
