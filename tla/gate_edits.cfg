\* One connection, two requests, every edit the UI can make at any point; every
\* request is decided.
SPECIFICATION FairSpec
CONSTANTS
  Files = {"f1", "f2"}
  Dirs = {"d1"}
  Patterns = {"p1"}
  Terms = {"t1"}
  DirsOf <- MCDirsOf
  PatternsOf <- MCPatternsOf
  Requests <- MCRequests
  Configs <- MCConfigs
  Conns = {"c1"}
  MaxEdits = 3
  MaxRequests = 2
  MaxClicks = 1
INVARIANTS ForwardJustified BlockJustified PromptWarranted GateInv
PROPERTY EveryRequestDecided
CHECK_DEADLOCK FALSE
