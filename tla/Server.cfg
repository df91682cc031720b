SPECIFICATION Spec
CONSTANTS
  Sessions = {s1, s2}
  Calls = {c1, c2}
  Polite = {s2}
  Inputs = {"i1", "i2"}
  Edits = {"e1"}
  MaxHandles = 5
  MaxAsked = 5
INVARIANTS ReviewsAreConsistent ExecutionsDoNotMix
PROPERTY PoliteSessionsAreAtomic
CHECK_DEADLOCK FALSE
