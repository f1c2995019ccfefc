\* Two sessions and two workers, two records, a queue of one job, a redeployment.
SPECIFICATION Spec
CONSTANTS
  t1 = t1
  t2 = t2
  Records = {r1, r2}
  Workers = {w1, w2}
  Titles <- MCTitles
  Ruled <- MCTitles
  Catalogs <- MCCatalogs
  Verdicts <- MCVerdicts
  Default = Default
  NoTag = NoTag
  Absent = Absent
  Deleted = Deleted
  QueueSize = 1
  MaxTokens = 4
  MaxBoots = 2
  MaxRequests = 3
CHECK_DEADLOCK FALSE
INVARIANTS TypeOK WorkersNeverWait SessionsWhole TagsResolve ChangesAnnounced
SYMMETRY Symmetry
