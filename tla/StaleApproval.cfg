SPECIFICATION Spec
CONSTANTS
  None = None
  NoKey = NoKey
  CONTINUE = CONTINUE
  END = END
  Flows = {"hitl"}
  Answers <- MCAnswers
  Calls <- MCCalls
  Changes <- MCChanges
  MaxTurns = 2
  MaxChanges = 2
  MaxEvents = 5
  MaxVisits <- MCMaxVisits
INVARIANT NothingShipsUnapproved
CHECK_DEADLOCK FALSE
