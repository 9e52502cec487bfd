SPECIFICATION FairSpec
CONSTANTS
  p1 = p1
  p2 = p2
  s1 = s1
  s2 = s2
  r1 = r1
  r2 = r2
  None = None
  Publishers = {p1, p2}
  Subscribers = {s1, s2}
  Runs = {r1}
  Filters = {None, r2}
  BufSize = 1
  MaxEvents <- MCMaxEvents
INVARIANTS TypeOK EachOnce PublisherOrder DroppedCounts
PROPERTIES NewestYields PublishReturns
CHECK_DEADLOCK FALSE
