SPECIFICATION Spec
CONSTANTS
  sub = sub
  res1 = res1
  res2 = res2
  wkr = wkr
  st1 = st1
  st2 = st2
  NoDecision = NoDecision
  Submitters = {sub}
  Resumers = {res1, res2}
  Workers = {}
  Steerers = {st1, st2}
  Commands = {"approve", "deny", "resume", "halt", "pause", "cancel"}
  MaxIterations = 2
  MaxActions = 1
  MaxDecisions = 2
  Criteria = {"action_succeeded"}
  ReadOnly = FALSE
  RequireApproval = TRUE
  HasDeadline = TRUE
  GateEnabled = TRUE
  CtxMayEnd = TRUE
  StoreNeedsCtx = TRUE
  StoreMayFail = TRUE
  PublishMayPanic = TRUE
  ServeMayEnd = TRUE
SYMMETRY Symmetry
INVARIANTS TypeOK SingleDriver OnlyApprovedExecutes DeniedNeverExecutes ExecutedOnce CompletedHasLearned
PROPERTIES ProgressKept StrandedOnlyByExit
CHECK_DEADLOCK FALSE
