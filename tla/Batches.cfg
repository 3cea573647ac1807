\* one batch of two requests, in three deployments
SPECIFICATION FairSpec
CONSTANTS
  None = None
  Runners = {r1, r2}
  Workers = {w1, w2}
  Batches = {b1}
  Lines = 2
  MaxUp = 1
  Deployments <- AllDeployments
INVARIANT BatchToldTruly
PROPERTY EndIsFinal
PROPERTY BatchesEnd
\* Every runner may be down, or every batch settled.
CHECK_DEADLOCK FALSE
