\* two processes, two namespaces; the clock's few seconds span several minutes
SPECIFICATION StoreSpec
CONSTANTS
  Namespaces = {1, 2}
  EntryKeys = {1, 2}
  Processes = {p1, p2}
  Retentions = {1}
  MaxDeletes = 1
  Minute = 2
  MaxTime = 4
SYMMETRY Symmetry
INVARIANT StoreTypeOK
INVARIANT IndexAgrees
PROPERTY ImplementsTtl
PROPERTY CleanupsAreInvisible
