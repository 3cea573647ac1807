\* Three requests of three kinds, with one worker or several.
SPECIFICATION TurnsSpec
CONSTANTS
  Turns <- ThreeTurns
  Kinds <- SomeKinds
  MaxLen = 9
  Reserve = 3
  Answers = {"calls", "toolThenText"}
INVARIANT TurnsContinue
INVARIANT CallsMatched
INVARIANT TruncationIsLeast
\* Every request is made, answered and perhaps deleted; then nothing is left to do.
CHECK_DEADLOCK FALSE
