SPECIFICATION Spec
CONSTANTS
  None = None
  g1 = g1
  g2 = g2
  Drivers = {g1, g2}
  Playbook <- MCPlaybook
  GoalWords <- MCGoalWords
  Responses <- MCResponses
  Compensations <- MCCompensations
  Histories <- MCHistories
  Readings <- MCReadings
  MaxRuns = 2
  InnerAttempts = 2
  OuterAttempts = 2
  MaxFailures = 2
  MaxRequests = 1
  Ttl = 4
  Refresh = 2
  MaxStall = 1
  MaxTime = 5
INVARIANTS LoopClosed EffectOnce CompensatedInOrder TokenValid
PROPERTIES CallsReturn
CHECK_DEADLOCK FALSE
