\* Two processes, one of which lists; three completions, one from before there was an index.
SPECIFICATION Spec
CONSTANTS
  Completions <- Three
  Changed = {2}
  Legacy = {2}
  p1 = p1
  p2 = p2
  Procs = {p1, p2}
  Listers = {p1}
  Queries <- TheQueries
  Limit = 1
  Batch = 1
  Faults = {"expire", "crash"}
INVARIANT StoredIsWhole
INVARIANT ListedRight
