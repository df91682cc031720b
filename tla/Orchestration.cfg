SPECIFICATION Spec
CONSTANTS
  Keys = {"k", "l"}
  SubgraphIds = {"web", "docs"}
  MaxKids = 2
  Handles = {1, 2}
  Namings <- MCNamings
  Writes = {{"k"}, {"k", "l"}}
  Setups <- MCSetups
INVARIANT JoinKeepsItsPromise
INVARIANT ArrivalOrderIsInvisible
INVARIANT ActiveIsExact
PROPERTY JoinsArePrompt
CHECK_DEADLOCK FALSE
