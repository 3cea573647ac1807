\* three files: a writer beside a lister, or two writers that die beside a cleanup loop
SPECIFICATION FairSpec
CONSTANTS
  w1 = w1
  w2 = w2
  l1 = l1
  c1 = c1
  Files = {1, 2, 3}
  Writers = {w1, w2}
  Listers = {l1}
  Cleaners = {c1}
  Queries <- TheQueries
  PurposeOf <- TwoPurposes
  Limit = 1
  Batch = 1
  Casts <- Both
INVARIANT ListableUntilDeleted
INVARIANT PageIsRight
PROPERTY OrphansGo
\* All files may have been deleted.
CHECK_DEADLOCK FALSE
