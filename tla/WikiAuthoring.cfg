SPECIFICATION Spec
CONSTANTS
  Users = {"u1", "u2"}
  Served = {"u1", "u2"}
  PageIds = {"p1", "p2"}
  SpaceReaders <- OpenAndPrivate
  InitialPages <- RestrictedPage
  Backends = {"native", "atlassian"}
  Unnumbered = {"p2"}
  MaxVersion = 4
  MaxDrafts = 2
  MaxComments = 2
  MaxCalls = 2
INVARIANTS
  NothingIsOverwritten
  HistoryIsWhole
  EarlierEditsSurvive
PROPERTIES
  WritesKeepTheRest
  VersionsAreRespected
CHECK_DEADLOCK FALSE
