SPECIFICATION Spec
CONSTANTS
  Dialect <- Hosted
  Callers = {"a", "b"}
  Requests <- LabelRequests
  Messages = {"m1"}
  Names = {"INBOX", "UNREAD", "Invoices", "invoices"}
  Fold <- SpellingFold
  OwnerNames = {"invoices"}
  Attempts = 2
  MaxLabels = 4
INVARIANTS
  ExistingIsNoError
