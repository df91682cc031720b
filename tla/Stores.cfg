SPECIFICATION Spec
CONSTANTS
  Ids = {d1, d2}
  Contents <- MCContents
  Callers = {p, q}
  MaxCalls = 3
  None = None
  Threads = {t1, t2, t3}
  SingleWriters = {t1, t2}
  MaxCheckpoints = 3
  Documents <- MCDocuments
  Runs <- MCRuns
  Designs <- MCDesigns
  Short = {"a"}
  Queries <- MCQueries
  Budgets <- MCBudgets
  Anywhere = Anywhere
  MaxEpisodes = 2
SYMMETRY MCSymmetry
INVARIANT BackendsAgree
INVARIANT AllListingsAreExact
INVARIANT RetrievalIsExact
PROPERTY SurrealKeepsTheLog
CHECK_DEADLOCK FALSE
