\* reasoning first, a tool parser that holds back nothing once it has let text through
SPECIFICATION Spec
CONSTANTS
  Chunks <- AllChunks
  MaxChunks = 5
  Quirks = {}
  Mentions = FALSE
  Faults = {"engine", "store", "disconnect"}
INVARIANT EventsInTurn
INVARIANT ContentAsTold
INVARIANT ToldIsStored
\* A stream ends.
CHECK_DEADLOCK FALSE
