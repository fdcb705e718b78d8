SPECIFICATION Spec
CONSTANTS
  Calls <- CollidingCalls
  KnownDrafts = {"d1"}
  AlwaysConfirm = {}
  AutoApprove = {}
  Permitted = {"send_mail", "mark_read", "create_draft", "apply_label"}
  QuestionBudget = 2
  RoundBudget = 2
  MaxBatch = 1
  MaxTurns = 2
  MaxAudit = 3
INVARIANTS
  ApprovedIsNotRejected
CHECK_DEADLOCK FALSE
