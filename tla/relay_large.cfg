\* Bodies larger than max_body_size.
SPECIFICATION Spec
CONSTANTS
  MaxRequests = 2
  Sizes = {0, 1, 2}
  MaxBody = 1
  MaxHints = 0
INVARIANT LargeBodiesForwarded
CHECK_DEADLOCK FALSE
