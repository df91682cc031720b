SPECIFICATION Spec
CONSTANTS
  plan = plan
  act = act
  t1 = t1
  t2 = t2
  ghost = ghost
  END = END
  NoKey = NoKey
  CONTINUE = CONTINUE
  r1 = r1
  r2 = r2
  Entry = plan
  Nodes <- MCNodes
  Edges <- MCEdges
  Outputs <- MCOutputs
  Runs <- MCRuns
  Saves <- MCSaves
  Threads <- MCThreads
  MaxIterations = 2
  Subscribers = {h1}
  Capacity = 2
INVARIANTS
  FollowersKnow
  MetricsAreExact
  TheEndIsHeard
PROPERTIES
  ImplementsRunLoop
SYMMETRY Symmetry
CHECK_DEADLOCK FALSE
