\* Two choices delivered in any order, every form of stream.
SPECIFICATION ChunksSpec
CONSTANTS
  Indices <- TwoChoices
  MaxPieces = 4
INVARIANT StreamEndsOnce
 
INVARIANT CallsTold
\* A stream that has ended does nothing more.
CHECK_DEADLOCK FALSE
