SPECIFICATION Spec
CONSTANTS
  Tasks = {t1}
  Calls = {c1, c2}
  Polite = {}
  Polled = {t1}
PROPERTY
  TerminalIsFinal
CHECK_DEADLOCK FALSE
