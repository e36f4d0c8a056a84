\* Two prompts with answers, second clicks and timeouts in any order; the
\* contract with its liveness.
SPECIFICATION Spec
CONSTANTS
  Prompts = {"p1", "p2"}
  Files = {"f1", "f2"}
  FilesOf <- MCFilesOf
  Handlers <- MCHandlers
INVARIANTS SendNeverBlocks ListsAreClicked ClosedForGood BrokerInv
PROPERTIES KeepsContract HandlersFinish
CHECK_DEADLOCK FALSE
