SPECIFICATION FairSpec
CONSTANTS
  r1 = r1
  r2 = r2
  r3 = r3
  w1 = w1
  w2 = w2
  Runs = {r1, r2, r3}
  Holders = {w1, w2}
  Priorities = {1, 5}
  TTL = 1
  MaxAttempts = 2
INVARIANTS TypeOK OnePlace GrantHonoured LeaseExclusion
PROPERTIES AttemptsKept ImplementsRunBoard  ExpiredIsReclaimed
