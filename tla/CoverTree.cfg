SPECIFICATION FairSearch
CONSTANTS
  Vectors <- Steps
  Distance <- Gap
  Unit = 4
  Num = 2
  Den = 1
  MaxPoints = 4
  Strategies = {"node", "level"}
  Queries <- Mid
  MaxK = 2
INVARIANTS
  TypeOK
  NoPointLost
  OneParent
  SearchIsExact
  AnswerIsFull
PROPERTIES
  InsertEnds
  TurnsBringTheEnd
  TreeSurvivesReload
