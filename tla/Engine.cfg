\* Two calls at once, two adapters, two numbers, every fault.
SPECIFICATION Spec
CONSTANTS
  Models <- Two
  n1 = n1
  n2 = n2
  p1 = p1
  p2 = p2
  None = None
  Names = {n1, n2}
  Paths = {p1, p2}
  Configured <- FromSettings
  Calls = {c1, c2}
  MaxId = 2
  Faults = {"boot", "stop", "reject", "evict"}
SYMMETRY Symmetry
INVARIANT NumbersDiffer
INVARIANT RunsItsAdapter
INVARIANT ShutdownLeavesNothing
\* A process that did not start, or was shut down, ends.
CHECK_DEADLOCK FALSE
