SPECIFICATION ScreenSpec
CONSTANTS
  Tabs = {t1, t2}
  NoTab = NoTab
  MaxTurns = 3
INVARIANTS
  ScreenKeepsUp
PROPERTIES
  NobodyIsKeptWaiting
CONSTRAINTS
  OneLooks
CHECK_DEADLOCK FALSE
