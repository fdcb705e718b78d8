SPECIFICATION LabelsSpec
CONSTANTS
  Names <- SomeNames
  Fold <- SomeFold
  Ids <- SomeIds
  Candidates <- SomeCandidates
  Messages = {"m1"}
  SystemIds = {"INBOX"}
  SystemNames <- InboxNames
  Others = FALSE
  MaxMade = 3
PROPERTIES
  ConfirmedNameIsTrue
