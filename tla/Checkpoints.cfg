SPECIFICATION FairSpec
CONSTANTS
  plan = plan
  act = act
  ghost = ghost
  retry = retry
  END = END
  NoKey = NoKey
  CONTINUE = CONTINUE
  r1 = r1
  r2 = r2
  Entry = plan
  Nodes <- MCNodes
  Edges <- MCEdges
  Outputs <- MCOutputs
  Runs <- MCRuns
  EveryNode <- Both
  Threads = {t1, t2}
  MaxIterations = 2
INVARIANTS
  WellFormed
  CheckpointsAreWalks
  BoundedLoss
  AnswersAreDurable
PROPERTIES
  ImplementsRunLoop
  ImplementsLog
  EveryRunReturns
CHECK_DEADLOCK FALSE
