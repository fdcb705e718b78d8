SPECIFICATION Spec
CONSTANTS
  Calls <- GatedCalls
  KnownDrafts = {"d1"}
  AlwaysConfirm = {}
  AutoApprove = {}
  Permitted = {"send_mail", "mark_read", "create_draft", "apply_label"}
  QuestionBudget = 1
  RoundBudget = 2
  MaxBatch = 2
  MaxTurns = 2
  MaxAudit = 3
INVARIANTS
  NothingChangedIsTrue
CHECK_DEADLOCK FALSE
