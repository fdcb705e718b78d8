SPECIFICATION Spec
CONSTANTS
  Calls <- MixedCalls
  KnownDrafts = {"d1"}
  AlwaysConfirm = {"create_draft"}
  AutoApprove = {}
  Permitted = {"send_mail", "mark_read", "create_draft", "apply_label"}
  QuestionBudget = 1
  RoundBudget = 2
  MaxBatch = 2
  MaxTurns = 2
  MaxAudit = 3
INVARIANTS
  GatedIsConfirmable
CHECK_DEADLOCK FALSE
