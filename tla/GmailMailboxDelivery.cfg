SPECIFICATION Spec
CONSTANTS
  Dialect <- Server
  Callers = {"a", "b"}
  Requests <- FewRequests
  Messages = {"m1"}
  Names = {"INBOX", "UNREAD", "Invoices", "invoices"}
  Fold <- SpellingFold
  OwnerNames = {"invoices"}
  Attempts = 2
  MaxLabels = 4
PROPERTIES
  AcknowledgedDidRun
