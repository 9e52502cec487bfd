SPECIFICATION Spec
CONSTANTS
  sub = sub
  res1 = res1
  res2 = res2
  wkr = wkr
  st1 = st1
  st2 = st2
  NoDecision = NoDecision
  Submitters = {sub}
  Resumers = {}
  Workers = {}
  Steerers = {}
  Commands = {}
  MaxIterations = 2
  MaxActions = 2
  MaxDecisions = 2
  Criteria = {"action_succeeded"}
  ReadOnly = FALSE
  RequireApproval = FALSE
  HasDeadline = FALSE
  GateEnabled = TRUE
  CtxMayEnd = FALSE
  StoreNeedsCtx = FALSE
  StoreMayFail = FALSE
  PublishMayPanic = FALSE
  ServeMayEnd = FALSE
INVARIANTS OutcomeClosure
CHECK_DEADLOCK FALSE
