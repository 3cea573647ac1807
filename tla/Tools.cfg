\* All four forms of request, two servers that may not connect, three rounds at most.
SPECIFICATION Spec
CONSTANTS
  Offers <- TwoServers
  Others = {"c"}
  MaxRounds = 2
  MaxCalls = 2
  Budgets = {0, 1, 2}
  Variants = {"response", "responseStream", "chat", "chatStream"}
INVARIANT LimitsKept
INVARIANT CallsAnswered
INVARIANT ToldIsAnswer
\* A request that has been answered does nothing more.
CHECK_DEADLOCK FALSE
