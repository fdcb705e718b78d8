SPECIFICATION Spec
CONSTANTS
  Users = {"u1", "u2"}
  Served = {"u1", "u2"}
  PageIds = {"p1", "p2"}
  SpaceReaders <- OpenAndPrivate
  InitialPages <- RestrictedPage
  Backends = {"memory"}
  Unnumbered = {"p2"}
  MaxVersion = 3
  MaxDrafts = 2
  MaxComments = 1
  MaxCalls = 1
INVARIANTS
  OnlyReadersWrite

CHECK_DEADLOCK FALSE
