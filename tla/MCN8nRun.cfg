SPECIFICATION Spec
CONSTANTS
  Workflows = {w1, w2}
  Callers = {c1}
  w1 = w1
  w2 = w2
  hook = hook
  hook2 = hook2
  Paths = {hook, hook2}
  Definitions <- MCDefinitions
  Beginnings <- MCBeginnings
  MaxPolls = 2
  MaxProbes = 1
  MaxCalls = 1
  MaxOthers = 2
  Endings = {"success", "canceled"}
  Fallback = TRUE
INVARIANTS RunsOncePerTransport ReportIsTrue
PROPERTIES CallsEnd
CHECK_DEADLOCK FALSE
