\* Four hosts and two places, over several lifetimes.
SPECIFICATION Spec
CONSTANTS
  Hosts = {h1, h2, h3, h4}
  MaxSize = 2
  Lifetime = 2
  MaxTime = 6
  MaxOrder = 8
INVARIANTS Evictable ServedIsCached
PROPERTY EvictsTheOldest
SYMMETRY HostSymmetry
CHECK_DEADLOCK FALSE
