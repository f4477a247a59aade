\* Two requests that meet at Common Auth: one changes accounts or sessions, or is
\* such a change itself, while the other is on its way.
CONSTANTS
  Undefined = Undefined
  Null = Null
  Listed = Listed
  Empty = Empty
  Missing = Missing
  u1 = u1
  u2 = u2
  t1 = t1
  t2 = t2
  Requests = {"r1", "r2"}
  Users = {u1, u2}
  Tokens = {t1, t2}
  Inputs <- MCMeetingRequests
  InitialAccounts <- MCManager
  InitialSessions <- MCLoggedIn
SPECIFICATION PipelineSpec
CHECK_DEADLOCK FALSE
INVARIANTS
  PipelineTypeOK
  NeverAdrift
  VouchedSinceArrival
  CreatedInScope
PROPERTIES
  AnsweredTruthfully
  EveryRequestAnswered
