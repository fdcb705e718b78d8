SPECIFICATION LabelsSpec
CONSTANTS
  Names <- SomeNames
  Fold <- SomeFold
  Ids <- SomeIds
  Candidates <- SomeCandidates
  Messages = {"m1"}
  SystemIds = {"INBOX"}
  SystemNames <- InboxNames
  Others = TRUE
  MaxMade = 3
INVARIANTS
  OneLabelPerName
  FiledUnderTheirLabel
PROPERTIES
  LabelsOnlyGoWhenDeleted
