\* Two requests on one connection, bodies within and beyond the limit, peers
\* that go away or fall silent at any point, an interim response now and then.
SPECIFICATION FairSpec
CONSTANTS
  MaxRequests = 2
  Sizes = {1, 2}
  MaxBody = 1
  MaxHints = 1
INVARIANTS BlockIsFinal RecordHasNoHoles LoggedOnce CutIsNeverComplete AnswersMatch
PROPERTIES EveryRequestEnds GoneIsLogged
CHECK_DEADLOCK FALSE
