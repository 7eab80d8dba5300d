SPECIFICATION AgentSpec
CONSTANTS
  Tools = {a, b}
  UnknownTools = {x}
  MaxIterations = 3
  MaxRuns = 2
  Resets = TRUE
  Texts = {"t"}
  MaxStream = 8
  MaxChunk = 3
INVARIANTS TrailIsOfThisRun StopsAtTheLimit StreamIsReadWhole
PROPERTIES RunEnds
CHECK_DEADLOCK FALSE
