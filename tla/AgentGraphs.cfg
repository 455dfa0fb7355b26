SPECIFICATION Spec
CONSTANTS
  Questions <- SmallQuestions
  Tickets <- SmallTickets
  Providers = {"llm", "embedding", "keyword"}
  ReactLlm = TRUE
  Delegates = TRUE
  MaxReactSteps = 8
  NoTicket = NoTicket
INVARIANTS
  TimelineReplays
  AnswerIsLastSearch
  RightQueue
CHECK_DEADLOCK FALSE
