SPECIFICATION FairSpec
CONSTANTS
  sub = sub
  res1 = res1
  res2 = res2
  wkr = wkr
  st1 = st1
  st2 = st2
  NoDecision = NoDecision
  Submitters = {sub}
  Resumers = {res1, res2}
  Workers = {}
  Steerers = {st1}
  Commands = {"approve"}
  MaxIterations = 2
  MaxActions = 1
  MaxDecisions = 2
  Criteria = {"action_succeeded"}
  ReadOnly = FALSE
  RequireApproval = TRUE
  HasDeadline = FALSE
  GateEnabled = TRUE
  CtxMayEnd = FALSE
  StoreNeedsCtx = FALSE
  StoreMayFail = FALSE
  PublishMayPanic = TRUE
  ServeMayEnd = TRUE
PROPERTIES FollowsFSM DriversReturn
CHECK_DEADLOCK FALSE
