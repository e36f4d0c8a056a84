\* Two connections whose prompts are answered while the other is decided.
SPECIFICATION Spec
CONSTANTS
  Files = {"f1", "f2"}
  Dirs = {"d1"}
  Patterns = {"p1"}
  Terms = {"t1"}
  DirsOf <- MCDirsOf
  PatternsOf <- MCPatternsOf
  Requests <- MCPromptRequests
  Configs <- MCPromptConfigs
  Conns = {c1, c2}
  MaxEdits = 0
  MaxRequests = 1
  MaxClicks = 2
INVARIANTS ForwardJustified BlockJustified
SYMMETRY ConnSymmetry
CHECK_DEADLOCK FALSE
