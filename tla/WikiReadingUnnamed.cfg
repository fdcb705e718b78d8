SPECIFICATION Spec
CONSTANTS
  Users = {"ann", "bob", "eve"}
  Readers = {"ann", "bob"}
  Account = "ann"
  Words = {"how", "vpn", "setup", "mac"}
  StopWords = {"how"}
  Spaces = {"eng"}
  InitialPages <- ThreePages
  Requests <- SomeRequests
  Backends = {"unnamed"}
  MaxTerms = 3
  Attempts = 2
  PagesConsulted = 2
  MaxShown = 2
  MaxLimit = 2
  Ageing = 1
  Stale = 2
  Codes = {"access_denied"}
  Rewritings = {{}, {"vpn", "setup"}}
  Restrictions = {{}, {"ann"}}
  FirstDay = 1
  MaxDay = 2
  MaxChanges = 1
INVARIANT
  OnlyTheirOwnView
