SPECIFICATION FairSpec
CONSTANTS
  one = one
  other = other
  Conversations = {one, other}
  Deployments <- MCDeployments
  page = page
  Pages = {page}
  Texts = {"remark", "objection"}
  Offered = {"update_page", "add_comment", "delete_page"}
  AlwaysConfirm = {"add_comment"}
  AutoApprove = {}
  RoundBudget = 1
  QuestionBudget = 1
  BatchSize = 2
  MaxDrafts = 1
  MaxTickets = 2
  MaxLog = 2
  MaxLives = 2
INVARIANTS
  DecisionsReachTheirCalls
  PerformedWasConfirmed
  NothingOutlivesItsRuntime
PROPERTIES
  TicketsKeepTheirPromise
  EveryTurnEnds
CHECK_DEADLOCK FALSE
