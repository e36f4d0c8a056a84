\* A host refreshed before the cache is full is listed twice.
SPECIFICATION Spec
CONSTANTS
  Hosts = {h1, h2, h3}
  MaxSize = 2
  Lifetime = 1
  MaxTime = 2
  MaxOrder = 5
INVARIANT CacheBounded
SYMMETRY HostSymmetry
CHECK_DEADLOCK FALSE
