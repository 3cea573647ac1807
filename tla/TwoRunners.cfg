\* two runners on one store, one of them replaced; every process may die
SPECIFICATION FairSpec
CONSTANTS
  None = None
  Runners = {r1, r2, r3}
  Jobs = {j1}
  Handlers = {h1}
  Local = FALSE
  Stored = {j1}
  MaxParallel = 1
  MaxUp = 2
  Ops = {}
  Faults = {"stop", "engine", "crash", "apiCrash"}
INVARIANT OneWorker
INVARIANT WorkersHoldLeases
INVARIANT CompletedIsStored
PROPERTY JobsSettle
\* Every runner may be down, or every job settled.
CHECK_DEADLOCK FALSE
