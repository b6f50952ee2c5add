CONSTANTS
  MaxCalls = 4
  Behaviours = {"repeat", "shellTransform"}
  ProxyKeys = {"mode"}
  MaxImposterCalls = 5
  Requests = {"get"}
  Answers <- MCAnswers
  States = {"s1", "s2"}
SPECIFICATION MCSpec
INVARIANTS
  NothingSilentlyDropped
  ServedIsWhatWasAsked
  StubsAsGiven
  DemandsAsAsked
CHECK_DEADLOCK FALSE
