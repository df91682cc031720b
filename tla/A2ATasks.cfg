SPECIFICATION PolledSpec
CONSTANTS
  Tasks = {t1, t2}
  Calls = {c1, c2}
  Polite = {t2}
  Polled = {t1}
INVARIANTS
  OutcomesAreTrue
PROPERTIES
  JobStaysAttached
  FollowsLifecycle
  PollingSettles
CHECK_DEADLOCK FALSE
