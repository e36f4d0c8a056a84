\* Two processes over one pair of files, a crash or a failing write.
SPECIFICATION Spec
CONSTANTS
  Processes = {p1, p2}
  MaxGenerations = 3
  MaxFaults = 2
INVARIANTS ServesAPair FailsOnlyOnDamage AnnouncedBeforeUse
PROPERTY KeepsTheCA
CHECK_DEADLOCK FALSE
