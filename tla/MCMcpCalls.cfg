SPECIFICATION McpSpec
CONSTANTS
  here = here  known = known  other = other
  Tasks = {t1, t2, t3}
  Connections = {here}
  ConnectionOf <- OneProcess
  Registered = {known}
  Unknown = {other}
  GrantSets <- MCGrants
  MaxTampers = 1
SYMMETRY AnyTask
INVARIANTS  GatedAndAudited AnswerIsOwn
CHECK_DEADLOCK FALSE
