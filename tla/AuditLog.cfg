SPECIFICATION Spec
CONSTANTS
  Sessions = {s1}
  Calls = {c1, c2}
  Polite = {}
  Inputs = {"i1"}
  Edits = {"e1"}
  MaxHandles = 4
  MaxAsked = 3
PROPERTY AuditLogIsAppendOnly
CHECK_DEADLOCK FALSE
