\* Three clicks, two of them under way at a time, a prompt or the tray in between,
\* a failing write, an end of the program anywhere.
SPECIFICATION Spec
CONSTANTS
  Clicks = {c1, c2}
  ItemsOf <- MCItemsOf
  Expand <- MCExpand
  Configured <- MCConfigured
  Slow = {"white"}
  MaxClicks = 3
  MaxOutside = 1
  MaxFaults = 1
  MaxStarts = 1
INVARIANTS EditsAreKept WindowTellsTruth
PROPERTY RestartRestores
CHECK_DEADLOCK FALSE
SYMMETRY ClickSymmetry
