\* Two models with or without sockets and backends of their own, one killed parent.
SPECIFICATION FairSpec
CONSTANTS
  m1 = m1
  m2 = m2
  s1 = s1
  s2 = s2
  b1 = b1
  b2 = b2
  Routes <- TwoRoutes
  Sockets = {s1, s2}
  Backends = {b1, b2}
  Workers = {w1, w2, w3, w4}
  w1 = w1
  w2 = w2
  w3 = w3
  w4 = w4
  Requests = {q1}
  q1 = q1
  MaxCrashes = 1
  MaxDeaths = 1
  None = None
INVARIANT OwnedAreStopped
INVARIANT RightWorkerServes
PROPERTY TransitionsEnd
\* A parent that has stopped need not be started again.
CHECK_DEADLOCK FALSE
