SPECIFICATION FairSpec
CONSTANTS
  Dialect <- Both
  Callers = {"a", "b"}
  Requests <- AllRequests
  Messages = {"m1"}
  Names = {"INBOX", "UNREAD", "Invoices", "invoices"}
  Fold <- SpellingFold
  OwnerNames = {"invoices"}
  Attempts = 3
  MaxLabels = 4
INVARIANTS
  SystemLabelsSurvive
PROPERTIES
  CallsKeepPromises
  EveryCallAnswers
