\* Both clients, streamed and whole responses, one DELETE.
SPECIFICATION FairSpec
CONSTANTS
  Providers = {"openai", "ollama"}
  Buffer = 2
  MaxLines = 4
INVARIANTS
  TypeOK
  CompletedIsWhole
  AnswerIsWhole
  EndedIsSettled
  RoutesAgree
PROPERTIES
  CancelledIsSettled
  HandlerEnds
  ProviderReturns
CHECK_DEADLOCK FALSE
