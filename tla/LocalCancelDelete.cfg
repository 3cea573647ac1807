\* embedded + local: handlers in the runner's process, graceful restarts
SPECIFICATION FairSpec
CONSTANTS
  None = None
  Runners = {r1, r2}
  Jobs = {j1, j2}
  Handlers = {h1, h2}
  Local = TRUE
  Stored = {j1, j2}
  MaxParallel = 1
  MaxUp = 1
  Ops = {"cancel", "delete"}
  Faults = {"stop", "engine"}
INVARIANT TypeOK
INVARIANT CancelAnswerHolds
INVARIANT DeletedLeavesNothing
INVARIANT RecordsAgree
PROPERTY ImplementsLifecycle
PROPERTY ShutdownEnds
\* Every runner may be down, or every job settled.
CHECK_DEADLOCK FALSE
