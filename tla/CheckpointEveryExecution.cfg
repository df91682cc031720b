SPECIFICATION Spec
CONSTANTS
  plan = plan
  act = act
  ghost = ghost
  retry = retry
  END = END
  NoKey = NoKey
  CONTINUE = CONTINUE
  r1 = r1
  r2 = r2
  Entry = plan
  Nodes <- MCNodes
  Edges <- MCEdges
  Outputs <- MCOutputs
  Runs <- MCRuns
  EveryNode <- Always
  Threads = {t1}
  MaxIterations = 3
INVARIANT
  EveryExecutionIsSaved
CHECK_DEADLOCK FALSE
