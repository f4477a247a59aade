\* One request at a time: every route, with every kind of user, department and body.
CONSTANTS
  Undefined = Undefined
  Null = Null
  Listed = Listed
  Empty = Empty
  Missing = Missing
  u1 = u1
  u2 = u2
  t1 = t1
  t2 = t2
  Requests = {"r1"}
  Users = {u1, u2}
  Tokens = {t1}
  Inputs <- MCEveryRequest
  InitialAccounts <- MCEveryAccount
  InitialSessions <- MCLoggedIn
SPECIFICATION PipelineSpec
CHECK_DEADLOCK FALSE
INVARIANTS
  RoutedAsIntended
  AdmittedHasActor
  DepartmentAsNamed
  CreatedInScope
