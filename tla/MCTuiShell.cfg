SPECIFICATION ScreenSpec
CONSTANTS
  Typed <- MCTyped
  MaxText = 2
  MaxWorkflows = 2
  Backends <- MCBackends
  Known <- MCKnown
  Models <- MCModels
  OpenRouterIds <- MCOpenRouterIds
  Lists <- MCLists
  MaxTasks = 2
  MaxChanges = 1
  BackgroundTasks = {t1, t2}
CONSTRAINT Apart
CHECK_DEADLOCK FALSE
INVARIANTS  PaletteCommandsParse ActiveIsListed ModelsFitTheirProvider
PROPERTIES ComposerIsATextField TerminalIsGivenBack
