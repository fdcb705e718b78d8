SPECIFICATION FairSpec
CONSTANTS
  Calls <- CollidingCalls
  KnownDrafts = {"d1"}
  AlwaysConfirm = {}
  AutoApprove = {}
  Permitted = {"mark_read", "send_mail"}
  QuestionBudget = 1
  RoundBudget = 2
  MaxBatch = 2
  MaxTurns = 2
  MaxAudit = 2
INVARIANTS
  ExecutedWasApproved
  AnswerServesOnce
  FloorIsAlwaysAsked
  QuestionsAreBounded
PROPERTIES
  InterruptedRunsNothing
  TurnEnds
CHECK_DEADLOCK FALSE
