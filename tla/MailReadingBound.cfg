SPECIFICATION Spec
CONSTANTS
  Owner = "owner"
  Others = {"stranger"}
  Readers = {"owner", "stranger"}
  Drafters = {"owner"}
  Address = "me"
  Addresses = {"me", "ann", "joann"}
  Inside <- PartOf
  Words = {"invoice"}
  Labels = {"work", "tax"}
  Threads = {"t1", "t2"}
  Dataset <- SomeMail
  Requests <- SomeRequests
  Backends = {"memory", "native", "gmail", "google"}
  MaxLimit = 2
  MaxChanges = 2
INVARIANT
  UpperBoundIsInclusive
