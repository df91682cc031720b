SPECIFICATION Spec
CONSTANTS
  None = None
  NoKey = NoKey
  CONTINUE = CONTINUE
  END = END
  Flows <- MCFlows
  Answers <- MCAnswers
  Calls <- MCCalls
  Changes <- MCChanges
  MaxTurns = 2
  MaxChanges = 2
  MaxEvents = 5
  MaxVisits <- MCMaxVisits
INVARIANT CallsAreAnswered
INVARIANT GuidanceIsCurrent
INVARIANT ApprovalsStand
INVARIANT ReleaseIsJustified
INVARIANT SpendingIsControlled
INVARIANT ReplayAgrees
CHECK_DEADLOCK FALSE
