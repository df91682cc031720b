SPECIFICATION PartSpec
CONSTANTS
  Classes = {"compile", "test"}
  Plans <- MCPlans
  Schedulers <- MCSchedulers
  RecoveryId <- MCRecoveryId
  MaxAttempts <- Policies
  MaxFailures = 3
  Ids = {a, b, c}
  Names = {"x", "y"}
  END = "__end__"
  NoKey = "no key"
  CONTINUE = "continue"
  Keys = {"continue", "loop"}
  Routers = {{"x", "__end__"}}
  Texts = {"d"}
  None = None
  Origins <- MCOrigins
  MaxEdits = 3
INVARIANTS
  BlockedIsExact
  DependenciesFirst
  AttemptsAreBounded
  LoopsAreExact
  DiffsAreExact
PROPERTIES
  StaysAcyclic
  EventuallyComplete
  LoopBlocksLeastSet
CHECK_DEADLOCK FALSE
