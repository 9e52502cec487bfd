SPECIFICATION Spec
CONSTANTS
  sub = sub
  res1 = res1
  res2 = res2
  wkr = wkr
  st1 = st1
  st2 = st2
  NoDecision = NoDecision
  Submitters = {}
  Resumers = {}
  Workers = {wkr}
  Steerers = {st1}
  Commands = {"halt"}
  MaxIterations = 2
  MaxActions = 1
  MaxDecisions = 2
  Criteria = {"action_succeeded"}
  ReadOnly = FALSE
  RequireApproval = TRUE
  HasDeadline = FALSE
  GateEnabled = TRUE
  CtxMayEnd = FALSE
  StoreNeedsCtx = FALSE
  StoreMayFail = FALSE
  PublishMayPanic = FALSE
  ServeMayEnd = FALSE
INVARIANTS DeniedNeverExecutes
CHECK_DEADLOCK FALSE
